---- MODULE Spec2Model ----
(***************************************************************************)
(* Macropad configuration tool: the data model, the config store, the      *)
(* validator (src/src/mapping.rs) and the graphical editor                 *)
(* (src/src/gui.rs), as a state machine.                                   *)
(*                                                                         *)
(* Strings are sequences of one-character strings, so that split(','),     *)
(* split('-'), uppercase_first and to_lowercase are computed as the code   *)
(* computes them.  Option<T> is a sequence of length 0 (None) or 1 (Some). *)
(***************************************************************************)
EXTENDS Integers, Sequences, FiniteSets, TLC

\* ------------------------------------------------------------------------
\* Characters and strings
\* ------------------------------------------------------------------------

LowerChars ==
    << "a","b","c","d","e","f","g","h","i","j","k","l","m",
       "n","o","p","q","r","s","t","u","v","w","x","y","z" >>

UpperChars ==
    << "A","B","C","D","E","F","G","H","I","J","K","L","M",
       "N","O","P","Q","R","S","T","U","V","W","X","Y","Z" >>

DigitChars == << "0","1","2","3","4","5","6","7","8","9" >>

\* char::to_ascii_uppercase
to_ascii_uppercase(ch) ==
    IF \E i \in 1..Len(LowerChars) : LowerChars[i] = ch
    THEN UpperChars[CHOOSE i \in 1..Len(LowerChars) : LowerChars[i] = ch]
    ELSE ch

\* char lower-casing, as applied by str::to_lowercase to ASCII text
to_ascii_lowercase(ch) ==
    IF \E i \in 1..Len(UpperChars) : UpperChars[i] = ch
    THEN LowerChars[CHOOSE i \in 1..Len(UpperChars) : UpperChars[i] = ch]
    ELSE ch

\* str::to_lowercase
RECURSIVE to_lowercase(_)
to_lowercase(s) ==
    IF s = << >> THEN << >> ELSE << to_ascii_lowercase(Head(s)) >> \o to_lowercase(Tail(s))

\* Mapping::uppercase_first: the first character upper-cased, the rest kept.
uppercase_first(data) ==
    IF data = << >> THEN << >> ELSE << to_ascii_uppercase(Head(data)) >> \o Tail(data)

\* str::split(sep): the pieces between the separators; the empty string
\* splits into one empty piece, and n separators give n + 1 pieces.
\* SplitRange gives the pieces of s[lo..hi], joining the pieces of its halves.
RECURSIVE SplitRange(_, _, _, _)
SplitRange(s, sep, lo, hi) ==
    IF lo > hi THEN << << >> >>
    ELSE IF lo = hi THEN (IF s[lo] = sep THEN << << >>, << >> >> ELSE << << s[lo] >> >>)
    ELSE LET mid == (lo + hi) \div 2
             L == SplitRange(s, sep, lo, mid)
             R == SplitRange(s, sep, mid + 1, hi)
         IN  SubSeq(L, 1, Len(L) - 1) \o << L[Len(L)] \o R[1] >> \o SubSeq(R, 2, Len(R))

split(s, sep) == SplitRange(s, sep, 1, Len(s))

\* ------------------------------------------------------------------------
\* Action grammar: the four token categories
\* ------------------------------------------------------------------------

\* Modifier::from_str: the canonical spellings of the modifiers.
ModifierNames ==
    { <<"C","t","r","l">>, <<"S","h","i","f","t">>, <<"A","l","t">>, <<"W","i","n">>,
      <<"R","c","t","r","l">>, <<"R","s","h","i","f","t">>, <<"R","a","l","t">>,
      <<"R","w","i","n">> }

\* The media keys the single-layer family supports (the match of line 169).
MediaWhitelist_8890 ==
    { <<"P","l","a","y">>, <<"P","r","e","v","i","o","u","s">>, <<"N","e","x","t">>,
      <<"M","u","t","e">>, <<"V","o","l","u","m","e","u","p">>,
      <<"V","o","l","u","m","e","d","o","w","n">> }

\* MediaCode::from_str: the canonical spellings of the media keys.
MediaNames ==
    MediaWhitelist_8890 \cup
    { <<"S","t","o","p">>, <<"P","r","e","v">>, <<"V","o","l","u","p">>,
      <<"V","o","l","d","o","w","n">>,
      <<"B","r","i","g","h","t","n","e","s","s","u","p">>,
      <<"B","r","i","g","h","t","n","e","s","s","d","o","w","n">> }

\* WellKnownCode::from_str: letters, digits, f1..f24 and the named keys.
FunctionKeyNames ==
    { <<"F", DigitChars[d + 1]>> : d \in 1..9 } \cup
    { <<"F", "1", DigitChars[d + 1]>> : d \in 0..9 } \cup
    { <<"F", "2", DigitChars[d + 1]>> : d \in 0..4 }

WellKnownNames ==
    { <<UpperChars[i]>> : i \in 1..Len(UpperChars) } \cup
    { <<DigitChars[i]>> : i \in 1..Len(DigitChars) } \cup
    FunctionKeyNames \cup
    { <<"S","p","a","c","e">>, <<"E","n","t","e","r">>,
      <<"B","a","c","k","s","p","a","c","e">>, <<"T","a","b">>, <<"E","s","c">>,
      <<"C","o","m","m","a">>, <<"D","o","t">>, <<"S","l","a","s","h">> }

MouseNames ==
    { <<"w","h","e","e","l","u","p">>, <<"w","h","e","e","l","d","o","w","n">>,
      <<"c","l","i","c","k">>, <<"m","c","l","i","c","k">>, <<"r","c","l","i","c","k">> }

is_modifier_key(keystr) == keystr \in ModifierNames

is_media_key(keystr) == keystr \in MediaNames

is_regular_key(keystr) == keystr \in WellKnownNames

is_mouse_action(keystr) == to_lowercase(keystr) \in MouseNames

\* ------------------------------------------------------------------------
\* Data model (mapping.rs, lines 7-82)
\* ------------------------------------------------------------------------

None == << >>

Some(x) == << x >>

\* vec![x; n]: n copies of x.
RECURSIVE Repeat(_, _)
Repeat(x, n) ==
    IF n <= 0 THEN << >>
    ELSE IF n = 1 THEN << x >>
    ELSE Repeat(x, n \div 2) \o Repeat(x, n - (n \div 2))

\* Button::new
Button_new == [delay |-> 0, mapping |-> << >>]

\* A Knob: three Buttons.
Knob_new == [ccw |-> Button_new, press |-> Button_new, cw |-> Button_new]

\* Layer::new(rows, cols, num_knobs)
Layer_new(rows, cols, num_knobs) ==
    [buttons |-> Repeat(Repeat(Button_new, cols), rows),
     knobs   |-> Repeat(Knob_new, num_knobs)]

default_layers_count == 3

\* Macropad::new(rows, cols, knobs)
Macropad_new(rows, cols, knobs) ==
    LET layers_count == 3 IN
    [device |-> [orientation |-> "Normal", rows |-> rows, cols |-> cols,
                 knobs |-> knobs, layers |-> layers_count],
     layers |-> Repeat(Layer_new(rows, cols, knobs), layers_count),
     led_settings |-> Some([mode |-> 1, layer |-> 1, color |-> "Cyan"])]

\* ------------------------------------------------------------------------
\* Program constants
\* ------------------------------------------------------------------------

PID_8840 == 34880
PID_8842 == 34882
PID_8890 == 34960
DEFAULT_MAX_KEYS == 255

\* crate::consts (the values of the constants module)
MAX_KEY_PRESSES_884X == 17
MAX_KEY_PRESSES_8890 == 5
MAX_DELAY == 6000

\* ------------------------------------------------------------------------
\* Validator (mapping.rs, lines 124-178)
\* ------------------------------------------------------------------------

\* A verdict: Ok(()) or the error with the positional context that wraps it.
\* layer, row, btn, knob are 1-based, 0 where the error carries none.
Ok == [ok |-> TRUE, msg |-> "", token |-> << >>, id |-> 0,
       layer |-> 0, row |-> 0, btn |-> 0, knob |-> 0, part |-> ""]

Err(msg) == [Ok EXCEPT !.ok = FALSE, !.msg = msg]

ErrKey(msg, token) == [Ok EXCEPT !.ok = FALSE, !.msg = msg, !.token = token]

\* A loop that returns at its first error: rs[n] is the verdict of the n-th
\* iteration, and the loop's verdict is the first one that is an error.
FirstError(rs) ==
    LET bad == { n \in DOMAIN rs : ~rs[n].ok } IN
    IF bad = {} THEN Ok
    ELSE rs[CHOOSE n \in bad : \A m \in bad : n <= m]

\* ValidateToken without the whitelist of the single-layer family.
ValidateToken_NoWhitelist(sk, pid) ==
    LET da_key == uppercase_first(sk) IN
    IF is_modifier_key(da_key) \/ is_media_key(da_key) \/ is_regular_key(da_key)
       \/ is_mouse_action(da_key)
    THEN Ok
    ELSE ErrKey("unknown key", sk)

\* ValidateToken naming the canonical form of an unknown token.
ValidateToken_NamesCanonical(sk, pid) ==
    LET da_key == uppercase_first(sk) IN
    IF is_modifier_key(da_key) THEN Ok
    ELSE IF is_media_key(da_key)
    THEN (IF pid = Some(PID_8890) /\ da_key \notin MediaWhitelist_8890
          THEN Err("unsupported media key for 8890") ELSE Ok)
    ELSE IF is_regular_key(da_key) \/ is_mouse_action(da_key) THEN Ok
    ELSE ErrKey("unknown key", da_key)

\* One token of a compound action (the body of the loop of lines 162-175).
ValidateToken(sk, pid) ==
    LET da_key == uppercase_first(sk) IN
    IF is_modifier_key(da_key) THEN Ok
    ELSE IF is_media_key(da_key)
         THEN IF pid = Some(PID_8890) /\ da_key \notin MediaWhitelist_8890
              THEN Err("unsupported media key for 8890")
              ELSE Ok
    ELSE IF is_regular_key(da_key) THEN Ok
    ELSE IF is_mouse_action(da_key) THEN Ok
    ELSE ErrKey("unknown key", sk)

\* One compound action k, the i-th of the mapping (the body of the loop of
\* lines 159-176); i is 0-based in the code and 1-based here, so the code's
\* i > 0 is i > 1.
ValidateKey(k, i, max_size, pid) ==
    LET single_key == split(k, "-") IN
    IF max_size = MAX_KEY_PRESSES_8890 /\ i > 1 /\ Len(single_key) > 1
    THEN Err("0x8890 only supports mods on first key")
    ELSE FirstError([n \in 1..Len(single_key) |-> ValidateToken(single_key[n], pid)])

\* validate_key_mapping with the delay ceiling applied to every family.
validate_key_mapping_DelayAlways(btn, max_size, pid) ==
    LET keys == split(btn.mapping, ",") IN
    IF Len(keys) > max_size THEN Err("Too many keys")
    ELSE IF btn.delay > MAX_DELAY THEN Err("delay too high")
    ELSE FirstError([i \in 1..Len(keys) |-> ValidateKey(keys[i], i, max_size, pid)])

\* validate_key_mapping rejecting a delay equal to the ceiling.
validate_key_mapping_DelayGe(btn, max_size, pid) ==
    LET keys == split(btn.mapping, ",") IN
    IF Len(keys) > max_size THEN Err("Too many keys")
    ELSE IF max_size # MAX_KEY_PRESSES_8890 /\ btn.delay >= MAX_DELAY
         THEN Err("delay too high")
    ELSE FirstError([i \in 1..Len(keys) |-> ValidateKey(keys[i], i, max_size, pid)])

\* validate_key_mapping checking the delay before the number of keys.
validate_key_mapping_DelayFirst(btn, max_size, pid) ==
    LET keys == split(btn.mapping, ",") IN
    IF max_size # MAX_KEY_PRESSES_8890 /\ btn.delay > MAX_DELAY
    THEN Err("delay too high")
    ELSE IF Len(keys) > max_size THEN Err("Too many keys")
    ELSE FirstError([i \in 1..Len(keys) |-> ValidateKey(keys[i], i, max_size, pid)])

\* Mapping::validate_key_mapping(btn, max_size, pid)
validate_key_mapping(btn, max_size, pid) ==
    LET keys == split(btn.mapping, ",") IN
    IF Len(keys) > max_size THEN Err("Too many keys")
    ELSE IF max_size # MAX_KEY_PRESSES_8890 /\ btn.delay > MAX_DELAY
         THEN Err("delay too high")
    ELSE FirstError([i \in 1..Len(keys) |-> ValidateKey(keys[i], i, max_size, pid)])

\* .context(format!("layer {} row {} btn {}", i+1, j+1, k+1))
CtxBtn(r, i, j, k) == IF r.ok THEN r ELSE [r EXCEPT !.layer = i, !.row = j, !.btn = k]

\* .context(format!("layer {} knob {} <part>", i+1, k+1))
CtxKnob(r, i, k, part) == IF r.ok THEN r ELSE [r EXCEPT !.layer = i, !.knob = k, !.part = part]

\* ValidateRow without the check of the column count.
ValidateRow_NoColsCheck(btn_mapping, cols, i, j, max, pid) ==
    FirstError([k \in 1..Len(btn_mapping) |->
        CtxBtn(validate_key_mapping(btn_mapping[k], max, pid), i, j, k)])

\* One row of a layer's grid (the body of the loop of lines 137-142): the
\* column count, then the row's Buttons left to right.
ValidateRow(btn_mapping, cols, i, j, max, pid) ==
    IF Len(btn_mapping) # cols
    THEN [Err("cols mismatch") EXCEPT !.layer = i, !.row = j]
    ELSE FirstError([k \in 1..Len(btn_mapping) |->
             CtxBtn(validate_key_mapping(btn_mapping[k], max, pid), i, j, k)])

\* One knob (the body of the loop of lines 144-148): ccw, then press, then cw.
ValidateKnob(knob, i, k, max, pid) ==
    FirstError(<< CtxKnob(validate_key_mapping(knob.ccw, max, pid), i, k, "ccw"),
                  CtxKnob(validate_key_mapping(knob.press, max, pid), i, k, "press"),
                  CtxKnob(validate_key_mapping(knob.cw, max, pid), i, k, "cw") >>)

\* ValidateLayer checking the knobs before the grid.
ValidateLayer_KnobsFirst(layer, device, i, max, pid) ==
    FirstError(
        << IF Len(layer.knobs) # device.knobs
           THEN [Err("knobs mismatch") EXCEPT !.layer = i] ELSE Ok,
           FirstError([k \in 1..Len(layer.knobs) |->
               ValidateKnob(layer.knobs[k], i, k, max, pid)]),
           IF Len(layer.buttons) # device.rows
           THEN [Err("rows mismatch") EXCEPT !.layer = i] ELSE Ok,
           FirstError([j \in 1..Len(layer.buttons) |->
               ValidateRow(layer.buttons[j], device.cols, i, j, max, pid)]) >>)

\* One layer (the body of the loop of lines 135-149): the row count, the
\* rows, the knob count, the knobs.
ValidateLayer(layer, device, i, max, pid) ==
    FirstError(
        << IF Len(layer.buttons) # device.rows
           THEN [Err("rows mismatch") EXCEPT !.layer = i] ELSE Ok,
           FirstError([j \in 1..Len(layer.buttons) |->
               ValidateRow(layer.buttons[j], device.cols, i, j, max, pid)]),
           IF Len(layer.knobs) # device.knobs
           THEN [Err("knobs mismatch") EXCEPT !.layer = i] ELSE Ok,
           FirstError([k \in 1..Len(layer.knobs) |->
               ValidateKnob(layer.knobs[k], i, k, max, pid)]) >>)

\* The product ids validate accepts (the match of lines 127-131).
KnownPid(pid) == pid = None \/ pid[1] \in {PID_8840, PID_8842, PID_8890}

\* max_programmable_keys (lines 125-132), for an accepted pid.
MaxProgrammableKeys(pid) ==
    IF pid = None THEN DEFAULT_MAX_KEYS
    ELSE IF pid[1] \in {PID_8840, PID_8842} THEN MAX_KEY_PRESSES_884X
    ELSE MAX_KEY_PRESSES_8890

\* ValidateCfg accepting a fourth layer.
ValidateCfg_FourLayers(cfg, pid) ==
    IF Len(cfg.layers) = 0 \/ Len(cfg.layers) > 4
    THEN Err("number of layers must be > 0 and < 4")
    ELSE FirstError([i \in 1..Len(cfg.layers) |->
             ValidateLayer(cfg.layers[i], cfg.device, i, MaxProgrammableKeys(pid), pid)])

\* The checks of validate on the configuration read (lines 134-150).
ValidateCfg(cfg, pid) ==
    IF Len(cfg.layers) = 0 \/ Len(cfg.layers) > 3
    THEN Err("number of layers must be > 0 and < 4")
    ELSE FirstError([i \in 1..Len(cfg.layers) |->
             ValidateLayer(cfg.layers[i], cfg.device, i, MaxProgrammableKeys(pid), pid)])

\* ------------------------------------------------------------------------
\* Config store (mapping.rs, lines 99-122)
\* ------------------------------------------------------------------------

\* ron::ser::to_string_pretty: the document written for a Macropad.  Every
\* field is written; in the document the device's layers field is optional.
to_string_pretty(config) ==
    [device |-> [orientation |-> config.device.orientation,
                 rows |-> config.device.rows, cols |-> config.device.cols,
                 knobs |-> config.device.knobs,
                 layers |-> Some(config.device.layers)],
     layers |-> config.layers,
     led_settings |-> config.led_settings]

\* from_reader taking the declared layer count from the layers present.
from_reader_CountsLayers(doc) ==
    [device |-> [orientation |-> doc.device.orientation,
                 rows |-> doc.device.rows, cols |-> doc.device.cols,
                 knobs |-> doc.device.knobs,
                 layers |-> Len(doc.layers)],
     layers |-> doc.layers,
     led_settings |-> doc.led_settings]

\* ron::de::from_reader: the Macropad a well-formed document holds; a
\* document without device.layers gets default_layers_count
\* (#[serde(default = "default_layers_count")]).
from_reader(doc) ==
    [device |-> [orientation |-> doc.device.orientation,
                 rows |-> doc.device.rows, cols |-> doc.device.cols,
                 knobs |-> doc.device.knobs,
                 layers |-> IF doc.device.layers = None THEN default_layers_count
                            ELSE doc.device.layers[1]],
     layers |-> doc.layers,
     led_settings |-> doc.led_settings]

\* The file at the configuration path: absent, or present.  A present file
\* can be opened or not (its permissions), and holds either a well-formed
\* document or text that does not deserialize.  Only what the program can
\* observe is kept: the document of a file that cannot be opened or parsed
\* is NoDoc.
NoDoc == to_string_pretty(Macropad_new(0, 0, 0))

AbsentFile == [present |-> FALSE, openable |-> FALSE, wellformed |-> FALSE, doc |-> NoDoc]

LockedFile == [present |-> TRUE, openable |-> FALSE, wellformed |-> FALSE, doc |-> NoDoc]

GarbageFile == [present |-> TRUE, openable |-> TRUE, wellformed |-> FALSE, doc |-> NoDoc]

FileOf(doc) == [present |-> TRUE, openable |-> TRUE, wellformed |-> TRUE, doc |-> doc]

\* Outcomes of std::fs::write: written, or failed leaving the path as it
\* was, or failed after truncating the file.
WriteOutcomes == {"written", "failed", "truncated"}

\* Mapping::save(config, cfg_file) on file f with write outcome w:
\* the verdict and the file afterwards.  std::fs::write keeps the
\* permissions of a file that exists: one that cannot be opened for reading
\* stays so, whatever is written to it.
Mapping_save(config, f, w) ==
    LET unreadable == f.present /\ ~f.openable IN
    IF w = "written"
    THEN [res |-> Ok,
          file |-> IF unreadable THEN f ELSE FileOf(to_string_pretty(config))]
    ELSE [res |-> Err("Failed to write file"),
          file |-> IF w = "truncated" /\ ~unreadable THEN GarbageFile ELSE f]

\* Mapping::read replacing a file that does not deserialize by the default.
Mapping_read_Repairs(f, w) ==
    LET created == IF ~f.present \/ (f.openable /\ ~f.wellformed)
                   THEN Mapping_save(Macropad_new(2, 3, 1), f, w)
                   ELSE [res |-> Ok, file |-> f]
        g == created.file
    IN  IF ~created.res.ok
        THEN [res |-> Err("Creating default config"), value |-> None, file |-> g]
        ELSE IF ~g.openable
        THEN [res |-> Err("Failed opening file"), value |-> None, file |-> g]
        ELSE IF ~g.wellformed
        THEN [res |-> Err("Failed to load config"), value |-> None, file |-> g]
        ELSE [res |-> Ok, value |-> Some(from_reader(g.doc)), file |-> g]

\* Mapping::read creating a 3x2 default.
Mapping_read_SwappedDefault(f, w) ==
    LET created == IF ~f.present THEN Mapping_save(Macropad_new(3, 2, 1), f, w)
                   ELSE [res |-> Ok, file |-> f]
        g == created.file
    IN  IF ~created.res.ok
        THEN [res |-> Err("Creating default config"), value |-> None, file |-> g]
        ELSE IF ~g.openable
        THEN [res |-> Err("Failed opening file"), value |-> None, file |-> g]
        ELSE IF ~g.wellformed
        THEN [res |-> Err("Failed to load config"), value |-> None, file |-> g]
        ELSE [res |-> Ok, value |-> Some(from_reader(g.doc)), file |-> g]

\* Mapping::read(cfg_file) on file f; w is the outcome of the write of the
\* default, made when the path does not exist.  The verdict, the Macropad
\* read (Some on success) and the file afterwards.
Mapping_read(f, w) ==
    LET created == IF ~f.present THEN Mapping_save(Macropad_new(2, 3, 1), f, w)
                   ELSE [res |-> Ok, file |-> f]
        g == created.file
    IN  IF ~created.res.ok
        THEN [res |-> Err("Creating default config"), value |-> None, file |-> g]
        ELSE IF ~g.openable
        THEN [res |-> Err("Failed opening file"), value |-> None, file |-> g]
        ELSE IF ~g.wellformed
        THEN [res |-> Err("Failed to load config"), value |-> None, file |-> g]
        ELSE [res |-> Ok, value |-> Some(from_reader(g.doc)), file |-> g]

\* Mapping::validate reading the configuration before it looks at the pid.
Mapping_validate_ReadFirst(f, pid, w) ==
    LET rd == Mapping_read(f, w) IN
    IF ~rd.res.ok THEN [res |-> rd.res, file |-> rd.file]
    ELSE IF ~KnownPid(pid)
    THEN [res |-> [Err("Unknown product id") EXCEPT !.id = pid[1]], file |-> rd.file]
    ELSE [res |-> ValidateCfg(rd.value[1], pid), file |-> rd.file]

\* Mapping::validate writing back the configuration it has read.
Mapping_validate_Resave(f, pid, w) ==
    IF ~KnownPid(pid)
    THEN [res |-> [Err("Unknown product id") EXCEPT !.id = pid[1]], file |-> f]
    ELSE LET rd == Mapping_read(f, w) IN
         IF ~rd.res.ok THEN [res |-> rd.res, file |-> rd.file]
         ELSE [res |-> ValidateCfg(rd.value[1], pid),
               file |-> Mapping_save(rd.value[1], rd.file, "written").file]

\* Mapping::validate(cfg_file, pid)
Mapping_validate(f, pid, w) ==
    IF ~KnownPid(pid)
    THEN [res |-> [Err("Unknown product id") EXCEPT !.id = pid[1]], file |-> f]
    ELSE LET rd == Mapping_read(f, w) IN
         IF ~rd.res.ok THEN [res |-> rd.res, file |-> rd.file]
         ELSE [res |-> ValidateCfg(rd.value[1], pid), file |-> rd.file]

\* ------------------------------------------------------------------------
\* Bounds and input pools
\* ------------------------------------------------------------------------

MaxEdits == 2
MaxLayers == 4
MaxRows == 2
MaxCols == 3
MaxKnobs == 2

\* Mapping strings a user types.
M_empty == <<  >>
M_a == << "a" >>
M_ctrl_c_ctrl_v == << "c", "t", "r", "l", "-", "c", ",", "c", "t", "r", "l", "-", "v" >>
M_ctrl_a_b == << "c", "t", "r", "l", "-", "a", ",", "b" >>
M_a_dash_b == << "a", "-", "b" >>
M_ctrl == << "c", "t", "r", "l" >>
M_a_comma_ctrl == << "a", ",", "c", "t", "r", "l" >>
M_a_dash_ctrl == << "a", "-", "c", "t", "r", "l" >>
M_brightnessup == << "b", "r", "i", "g", "h", "t", "n", "e", "s", "s", "u", "p" >>
M_play == << "p", "l", "a", "y" >>
M_prev == << "p", "r", "e", "v" >>
M_foobar == << "f", "o", "o", "b", "a", "r" >>
M_qq_foobar == << "q", "q", "," >> \o M_foobar
M_CLICK == << "C", "L", "I", "C", "K" >>
M_Shift_f12 == << "S", "h", "i", "f", "t", "-", "f", "1", "2" >>

\* "a,a,...,a": n compound actions, each a well-known key.
RECURSIVE KeysA(_)
KeysA(n) == IF n <= 1 THEN M_a ELSE M_a \o << "," >> \o KeysA(n - 1)

\* ",,...,": n compound actions, each the empty token.
Commas(n) == Repeat(",", n - 1)

MappingPool ==
    { M_empty, M_a, M_ctrl_c_ctrl_v, M_ctrl_a_b, M_a_dash_b,
      M_ctrl, M_a_comma_ctrl, M_a_dash_ctrl, M_brightnessup, M_play,
      M_prev, M_foobar, M_CLICK, M_Shift_f12, M_qq_foobar }
    \cup { KeysA(n) : n \in {MAX_KEY_PRESSES_8890, MAX_KEY_PRESSES_8890 + 1,
                             MAX_KEY_PRESSES_884X, MAX_KEY_PRESSES_884X + 1} }
    \cup { Commas(n) : n \in {MAX_KEY_PRESSES_8890 + 1, MAX_KEY_PRESSES_884X + 1,
                              DEFAULT_MAX_KEYS, DEFAULT_MAX_KEYS + 1} }

\* Mappings typed together with a non-zero delay.
DelayedMappings ==
    { M_a, M_foobar, M_ctrl_c_ctrl_v, M_brightnessup,
      Commas(MAX_KEY_PRESSES_8890 + 1), Commas(MAX_KEY_PRESSES_884X + 1) }

\* Delays (u16) a user types.
DelayPool == {50, MAX_DELAY, MAX_DELAY + 1, 65535}

\* Buttons a user writes.
ButtonPool ==
    { [delay |-> 0, mapping |-> m] : m \in MappingPool }
    \cup { [delay |-> d, mapping |-> m] : d \in DelayPool, m \in DelayedMappings }

\* Product ids a caller passes to validate: absent, the three known ids
\* and one unknown id (0x1234).
PidPool == {None, Some(PID_8840), Some(PID_8842), Some(PID_8890), Some(4660)}

\* A Button, Knob and Layer as a user writes them: every mapping the key "a".
SampleButton == [delay |-> 0, mapping |-> M_a]

SampleKnob == [ccw |-> SampleButton, press |-> SampleButton, cw |-> SampleButton]

SampleLayer(rows, cols, knobs) ==
    [buttons |-> Repeat(Repeat(SampleButton, cols), rows),
     knobs   |-> Repeat(SampleKnob, knobs)]

\* A hand-written document: n layers of a rows x cols grid and knobs knobs.
SampleDoc(n, rows, cols, knobs) ==
    [device |-> [orientation |-> "Normal", rows |-> rows, cols |-> cols,
                 knobs |-> knobs, layers |-> Some(n)],
     layers |-> Repeat(SampleLayer(rows, cols, knobs), n),
     led_settings |-> None]

\* A Macropad as an editor session leaves it: a declared layer count that
\* differs from the layers held, delays, compound mappings, LED settings.
EditedConfig ==
    [device |-> [orientation |-> "Clockwise", rows |-> 1, cols |-> 1,
                 knobs |-> 1, layers |-> 0],
     layers |-> << [buttons |-> << << [delay |-> 500, mapping |-> M_ctrl_c_ctrl_v] >> >>,
                    knobs |-> << [ccw |-> SampleButton, press |-> Button_new,
                                  cw |-> [delay |-> 6000, mapping |-> M_foobar]] >>] >>,
     led_settings |-> Some([mode |-> 2, layer |-> 3, color |-> "Red"])]

\* The Macropads handed to save: the factory default, a hand-written
\* document as read, and an edited one.
SaveConfigs == { Macropad_new(2, 3, 1), from_reader(SampleDoc(2, 1, 2, 1)), EditedConfig }

\* The documents a run starts from: two layers of a 1x2 grid with one knob,
\* and one layer of a 2x1 grid without knobs.
SampleDocs == { SampleDoc(2, 1, 2, 1), SampleDoc(1, 2, 1, 0) }

\* ------------------------------------------------------------------------
\* Positions of the Buttons of a configuration
\* ------------------------------------------------------------------------

KnobParts == {"ccw", "press", "cw"}

\* The Buttons of layer l: <<l, "btn", row, col>> for a grid cell and
\* <<l, part, knob, 0>> for a knob part, all 1-based.
LayerPositions(layers, l) ==
    UNION { { <<l, "btn", r, c>> : c \in 1..Len(layers[l].buttons[r]) } :
            r \in 1..Len(layers[l].buttons) }
    \cup { <<l, p, k, 0>> : p \in KnobParts, k \in 1..Len(layers[l].knobs) }

ButtonPositions(layers) == UNION { LayerPositions(layers, l) : l \in 1..Len(layers) }

ButtonAt(layers, pos) ==
    IF pos[2] = "btn" THEN layers[pos[1]].buttons[pos[3]][pos[4]]
    ELSE IF pos[2] = "ccw" THEN layers[pos[1]].knobs[pos[3]].ccw
    ELSE IF pos[2] = "press" THEN layers[pos[1]].knobs[pos[3]].press
    ELSE layers[pos[1]].knobs[pos[3]].cw

WithButton(layers, pos, b) ==
    IF pos[2] = "btn" THEN [layers EXCEPT ![pos[1]].buttons[pos[3]][pos[4]] = b]
    ELSE IF pos[2] = "ccw" THEN [layers EXCEPT ![pos[1]].knobs[pos[3]].ccw = b]
    ELSE IF pos[2] = "press" THEN [layers EXCEPT ![pos[1]].knobs[pos[3]].press = b]
    ELSE [layers EXCEPT ![pos[1]].knobs[pos[3]].cw = b]

\* ------------------------------------------------------------------------
\* The editor (src/src/gui.rs): data
\* ------------------------------------------------------------------------

\* enum Selection; row, column and knob index are 0-based as in the code.
Selection_None == [kind |-> "None", row |-> 0, col |-> 0, part |-> ""]

Selection_Button(r, c) == [kind |-> "Button", row |-> r, col |-> c, part |-> ""]

Selection_Knob(idx, part) == [kind |-> "Knob", row |-> idx, col |-> 0, part |-> part]

\* A status line: the message, its colour and the numbers formatted into it.
Status(msg, color, args) == [msg |-> msg, color |-> color, args |-> args]

\* The initial value of the static DATA.
DATA ==
    [current_layer_idx |-> 0,
     macropad_data |-> Macropad_new(2, 3, 1),
     selection |-> Selection_None,
     connected_pid |-> None,
     status |-> Status("Welcome to Macropad Editor Pro", "LIGHT_GRAY", << >>)]

\* MacropadApp::new on the Macropad read at start; panicked records that the
\* UI thread panicked holding the lock of DATA, which poisons the mutex.
MacropadApp_new(initial_data) ==
    LET led == IF initial_data.led_settings # None THEN initial_data.led_settings[1]
               ELSE [mode |-> 1, layer |-> 1, color |-> "Cyan"] IN
    [temp_editor_val |-> << >>,
     temp_delay_val |-> << >>,
     ui_rows |-> initial_data.device.rows,
     ui_cols |-> initial_data.device.cols,
     ui_knobs |-> initial_data.device.knobs,
     ui_layers |-> initial_data.device.layers,
     ui_orientation |-> initial_data.device.orientation,
     led_mode |-> led.mode,
     led_layer |-> led.layer,
     led_color |-> led.color,
     panicked |-> FALSE]

\* u16::to_string: the decimal digits of n.
RECURSIVE to_string(_)
to_string(n) ==
    IF n < 10 THEN << DigitChars[n + 1] >>
    ELSE to_string(n \div 10) \o << DigitChars[(n % 10) + 1] >>

IsDigit(ch) == \E i \in 1..Len(DigitChars) : DigitChars[i] = ch

DigitValue(ch) == (CHOOSE i \in 1..Len(DigitChars) : DigitChars[i] = ch) - 1

RECURSIVE DecimalValue(_)
DecimalValue(s) ==
    IF s = << >> THEN 0
    ELSE DecimalValue(SubSeq(s, 1, Len(s) - 1)) * 10 + DigitValue(s[Len(s)])

\* str::parse::<u16>: an optional "+", then one or more decimal digits whose
\* value fits 16 bits; None for anything else.
parse_u16(s) ==
    LET digits == IF s # << >> /\ Head(s) = "+" THEN Tail(s) ELSE s IN
    IF digits = << >> \/ \E i \in 1..Len(digits) : ~IsDigit(digits[i]) THEN None
    ELSE IF Len(digits) > 6 \/ DecimalValue(digits) > 65535 THEN None
    ELSE Some(DecimalValue(digits))

\* Option::unwrap_or
unwrap_or(opt, default) == IF opt = None THEN default ELSE opt[1]

\* Whether the selection indexes an existing Button or knob of layer
\* layer_idx (0-based) of the layers.
IndexOk(layers, layer_idx, sel) ==
    LET layer == layers[layer_idx + 1] IN
    CASE sel.kind = "Button" ->
             /\ sel.row < Len(layer.buttons)
             /\ sel.col < Len(layer.buttons[sel.row + 1])
      [] sel.kind = "Knob" -> sel.row < Len(layer.knobs)
      [] OTHER -> TRUE

\* The position (1-based) of the selected Button in layer layer_idx.
SelectedPos(layer_idx, sel) ==
    IF sel.kind = "Button" THEN << layer_idx + 1, "btn", sel.row + 1, sel.col + 1 >>
    ELSE << layer_idx + 1, sel.part, sel.row + 1, 0 >>

\* sync_temp_to_data panics when it indexes a Button or knob out of range.
sync_temp_to_data_panics(a, d) ==
    /\ d.selection.kind # "None"
    /\ d.current_layer_idx < Len(d.macropad_data.layers)
    /\ ~IndexOk(d.macropad_data.layers, d.current_layer_idx, d.selection)

\* sync_temp_to_data writing into the first layer, whichever is current.
sync_temp_to_data_FirstLayer(a, d) ==
    LET delay == unwrap_or(parse_u16(a.temp_delay_val), 0)
        written == [delay |-> delay, mapping |-> a.temp_editor_val]
        layers == IF d.selection.kind # "None"
                     /\ d.current_layer_idx < Len(d.macropad_data.layers)
                  THEN WithButton(d.macropad_data.layers,
                                  SelectedPos(0, d.selection), written)
                  ELSE d.macropad_data.layers
    IN  [d EXCEPT !.macropad_data.layers = layers,
                  !.macropad_data.led_settings =
                      Some([mode |-> a.led_mode, layer |-> a.led_layer,
                            color |-> a.led_color])]

\* MacropadApp::sync_temp_to_data(&self, data): the EditorData afterwards.
sync_temp_to_data(a, d) ==
    LET layer_idx == d.current_layer_idx
        delay == unwrap_or(parse_u16(a.temp_delay_val), 0)
        written == [delay |-> delay, mapping |-> a.temp_editor_val]
        layers == IF d.selection.kind # "None"
                     /\ layer_idx < Len(d.macropad_data.layers)
                  THEN WithButton(d.macropad_data.layers,
                                  SelectedPos(layer_idx, d.selection), written)
                  ELSE d.macropad_data.layers
    IN  [d EXCEPT !.macropad_data.layers = layers,
                  !.macropad_data.led_settings =
                      Some([mode |-> a.led_mode, layer |-> a.led_layer,
                            color |-> a.led_color])]

\* sync_data_to_temp panics when it indexes a Button or knob out of range.
sync_data_to_temp_panics(d) ==
    /\ d.current_layer_idx < Len(d.macropad_data.layers)
    /\ ~IndexOk(d.macropad_data.layers, d.current_layer_idx, d.selection)

\* MacropadApp::sync_data_to_temp(&mut self, data): the app afterwards.
sync_data_to_temp(a, d) ==
    LET layer_idx == d.current_layer_idx IN
    IF layer_idx >= Len(d.macropad_data.layers) THEN a
    ELSE IF d.selection.kind = "None"
    THEN [a EXCEPT !.temp_editor_val = << >>, !.temp_delay_val = << >>]
    ELSE LET btn == ButtonAt(d.macropad_data.layers,
                             SelectedPos(layer_idx, d.selection)) IN
         [a EXCEPT !.temp_editor_val = btn.mapping,
                   !.temp_delay_val = to_string(btn.delay)]

\* apply_layout keeping an old layer as it is, whatever the new geometry.
LayoutLayer_KeepOld(a, old_layers, i) ==
    IF i > Len(old_layers) THEN Layer_new(a.ui_rows, a.ui_cols, a.ui_knobs)
    ELSE old_layers[i]

\* apply_layout copying the grid of an old layer but not its knobs.
LayoutLayer_NewKnobs(a, old_layers, i) ==
    IF i > Len(old_layers) THEN Layer_new(a.ui_rows, a.ui_cols, a.ui_knobs)
    ELSE [buttons |->
              [row \in 1..a.ui_rows |->
                  [col \in 1..a.ui_cols |->
                      IF row <= Len(old_layers[i].buttons)
                         /\ col <= Len(old_layers[i].buttons[row])
                      THEN old_layers[i].buttons[row][col]
                      ELSE Button_new]],
          knobs |-> [knob \in 1..a.ui_knobs |-> Knob_new]]

\* The layer apply_layout builds at index i (1-based): a new layer with the
\* overlapping cells and knobs of the old one, if there was one.
LayoutLayer(a, old_layers, i) ==
    IF i > Len(old_layers) THEN Layer_new(a.ui_rows, a.ui_cols, a.ui_knobs)
    ELSE [buttons |->
              [row \in 1..a.ui_rows |->
                  [col \in 1..a.ui_cols |->
                      IF row <= Len(old_layers[i].buttons)
                         /\ col <= Len(old_layers[i].buttons[row])
                      THEN old_layers[i].buttons[row][col]
                      ELSE Button_new]],
          knobs |->
              [knob \in 1..a.ui_knobs |->
                  IF knob <= Len(old_layers[i].knobs) THEN old_layers[i].knobs[knob]
                  ELSE Knob_new]]

\* apply_layout leaving the selection and the current layer as they are.
apply_layout_data_KeepsSelection(a, d) ==
    [d EXCEPT
        !.macropad_data.device =
            [orientation |-> a.ui_orientation, rows |-> a.ui_rows, cols |-> a.ui_cols,
             knobs |-> a.ui_knobs, layers |-> a.ui_layers],
        !.macropad_data.layers =
            [i \in 1..a.ui_layers |-> LayoutLayer(a, d.macropad_data.layers, i)],
        !.status = Status("Applied", "KHAKI", << a.ui_layers, a.ui_rows, a.ui_cols >>)]

\* MacropadApp::apply_layout: the EditorData afterwards.
apply_layout_data(a, d) ==
    [d EXCEPT
        !.macropad_data.device =
            [orientation |-> a.ui_orientation, rows |-> a.ui_rows, cols |-> a.ui_cols,
             knobs |-> a.ui_knobs, layers |-> a.ui_layers],
        !.macropad_data.layers =
            [i \in 1..a.ui_layers |-> LayoutLayer(a, d.macropad_data.layers, i)],
        !.selection = Selection_None,
        !.current_layer_idx = IF @ >= a.ui_layers THEN 0 ELSE @,
        !.status = Status("Applied", "KHAKI", << a.ui_layers, a.ui_rows, a.ui_cols >>)]

\* MacropadApp::apply_layout: the app afterwards.
apply_layout_app(a) == [a EXCEPT !.temp_editor_val = << >>, !.temp_delay_val = << >>]

\* MacropadApp::get_led_modes(pid): the mode numbers offered.
get_led_modes(pid) == IF pid = PID_8890 THEN 0..2 ELSE 0..5

\* The colours the LED colour box offers.
LedColors == {"Red", "Orange", "Yellow", "Green", "Cyan", "Blue", "Purple"}

\* The orientations the orientation box offers.
Orientations == {"Normal", "Clockwise", "CounterClockwise", "UpsideDown"}

\* The central panel panics when the grid it draws for the current layer
\* indexes a row, a Button or a knob the layer does not have.
render_panics(d) ==
    /\ d.current_layer_idx < Len(d.macropad_data.layers)
    /\ LET layer == d.macropad_data.layers[d.current_layer_idx + 1] IN
       \/ /\ d.macropad_data.device.cols > 0
          /\ \E row \in 1..d.macropad_data.device.rows :
                 IF row > Len(layer.buttons) THEN TRUE
                 ELSE d.macropad_data.device.cols > Len(layer.buttons[row])
       \/ d.macropad_data.device.knobs > Len(layer.knobs)

\* ------------------------------------------------------------------------
\* State
\* ------------------------------------------------------------------------

VARIABLES
    file,     \* the file at the configuration path
    last,     \* the most recent store operation: its inputs and what it returned
    edits,    \* the editing effort spent on the file so far
    data,     \* the editor's shared EditorData (the static DATA)
    app,      \* the editor's MacropadApp, owned by the UI thread
    threads,  \* the threads the editor spawned that have not finished
    programmed, \* the configurations handed to kb.program, in order
    events,   \* the UI events handled so far
    mutex,    \* the Mutex of DATA: the thread that holds it, and whether it is poisoned
    ui,       \* the UI thread's place in update, instruction by instruction
    workers,  \* the spawned threads, each with its place in its closure
    log       \* the status writes of Program Device clicks and of their threads

storeVars == << file, last, edits >>

lockVars == << mutex, ui, workers, log >>

editorVars == << data, app, threads, programmed, events, mutex, ui, workers, log >>

vars == << file, last, edits, data, app, threads, programmed, events,
           mutex, ui, workers, log >>

\* The threads a model of the locking tracks at a time.
WorkerSlots == {"w1", "w2"}

NoWorker == [kind |-> "none", pc |-> "", click |-> 0]

\* Nobody holds or wants the Mutex: the locking is not being followed.
LockIdle ==
    /\ mutex = [holder |-> "", poisoned |-> FALSE]
    /\ ui = [event |-> "none", poll |-> FALSE, pc |-> 0, clicks |-> 0, dead |-> FALSE]
    /\ workers = [w \in WorkerSlots |-> NoWorker]
    /\ log = << >>

\* wrote: whether the operation changed the file.  arg: the Macropad given
\* to the save whose file is still in place (kept by a read that follows the
\* save).  value: the Macropad a read returned.
NoOp == [op |-> "none", pid |-> None, res |-> Ok, wrote |-> FALSE,
         arg |-> None, value |-> None]

\* ------------------------------------------------------------------------
\* The user writing the configuration file by hand
\* ------------------------------------------------------------------------

Readable == file.present /\ file.openable /\ file.wellformed

\* The file after a small hand edit to document d.
Edited(d) ==
    /\ file' = FileOf(d)
    /\ edits' = edits + 1
    /\ last' = NoOp
    /\ UNCHANGED editorVars

\* The user rewrites one Button, its mapping and its delay, and is done
\* editing: the budget of edits is spent on it.
FileSetButton ==
    /\ Readable
    /\ edits = 0
    /\ \E pos \in ButtonPositions(file.doc.layers), b \in ButtonPool :
          /\ ButtonAt(file.doc.layers, pos) # b
          /\ file' = FileOf([file.doc EXCEPT !.layers = WithButton(@, pos, b)])
    /\ edits' = MaxEdits
    /\ last' = NoOp
    /\ UNCHANGED editorVars

\* The user mistypes the key of one Button.
FileMistypeButton ==
    /\ Readable
    /\ edits < MaxEdits
    /\ \E pos \in ButtonPositions(file.doc.layers) :
          /\ ButtonAt(file.doc.layers, pos).mapping # M_foobar
          /\ Edited([file.doc EXCEPT !.layers =
                 WithButton(@, pos, [ButtonAt(@, pos) EXCEPT !.mapping = M_foobar])])

FileAddLayer ==
    /\ Readable
    /\ edits < MaxEdits
    /\ Len(file.doc.layers) < MaxLayers
    /\ Edited([file.doc EXCEPT !.layers =
           Append(@, SampleLayer(file.doc.device.rows, file.doc.device.cols,
                                 file.doc.device.knobs))])

FileRemoveLayer ==
    /\ Readable
    /\ edits < MaxEdits
    /\ Len(file.doc.layers) > 0
    /\ Edited([file.doc EXCEPT !.layers = SubSeq(@, 1, Len(@) - 1)])

FileAddRow ==
    /\ Readable
    /\ edits < MaxEdits
    /\ \E l \in 1..Len(file.doc.layers) :
          /\ Len(file.doc.layers[l].buttons) < MaxRows
          /\ Edited([file.doc EXCEPT !.layers[l].buttons =
                 Append(@, Repeat(SampleButton, file.doc.device.cols))])

FileRemoveRow ==
    /\ Readable
    /\ edits < MaxEdits
    /\ \E l \in 1..Len(file.doc.layers) :
          /\ Len(file.doc.layers[l].buttons) > 0
          /\ Edited([file.doc EXCEPT !.layers[l].buttons = SubSeq(@, 1, Len(@) - 1)])

FileAddButton ==
    /\ Readable
    /\ edits < MaxEdits
    /\ \E l \in 1..Len(file.doc.layers) :
       \E r \in 1..Len(file.doc.layers[l].buttons) :
          /\ Len(file.doc.layers[l].buttons[r]) < MaxCols
          /\ Edited([file.doc EXCEPT !.layers[l].buttons[r] = Append(@, SampleButton)])

FileRemoveButton ==
    /\ Readable
    /\ edits < MaxEdits
    /\ \E l \in 1..Len(file.doc.layers) :
       \E r \in 1..Len(file.doc.layers[l].buttons) :
          /\ Len(file.doc.layers[l].buttons[r]) > 0
          /\ Edited([file.doc EXCEPT !.layers[l].buttons[r] = SubSeq(@, 1, Len(@) - 1)])

FileAddKnob ==
    /\ Readable
    /\ edits < MaxEdits
    /\ \E l \in 1..Len(file.doc.layers) :
          /\ Len(file.doc.layers[l].knobs) < MaxKnobs
          /\ Edited([file.doc EXCEPT !.layers[l].knobs = Append(@, SampleKnob)])

FileRemoveKnob ==
    /\ Readable
    /\ edits < MaxEdits
    /\ \E l \in 1..Len(file.doc.layers) :
          /\ Len(file.doc.layers[l].knobs) > 0
          /\ Edited([file.doc EXCEPT !.layers[l].knobs = SubSeq(@, 1, Len(@) - 1)])

FileSetRows ==
    /\ Readable
    /\ edits < MaxEdits
    /\ \E n \in 0..MaxRows :
          /\ file.doc.device.rows # n
          /\ Edited([file.doc EXCEPT !.device.rows = n])

FileSetCols ==
    /\ Readable
    /\ edits < MaxEdits
    /\ \E n \in 0..MaxCols :
          /\ file.doc.device.cols # n
          /\ Edited([file.doc EXCEPT !.device.cols = n])

FileSetKnobs ==
    /\ Readable
    /\ edits < MaxEdits
    /\ \E n \in 0..MaxKnobs :
          /\ file.doc.device.knobs # n
          /\ Edited([file.doc EXCEPT !.device.knobs = n])

\* The device's layers field: left out of the document, or any count.
FileSetLayersField ==
    /\ Readable
    /\ edits < MaxEdits
    /\ \E n \in {None} \cup { Some(k) : k \in 0..MaxLayers } :
          /\ file.doc.device.layers # n
          /\ Edited([file.doc EXCEPT !.device.layers = n])

\* The user deletes the file, makes it unreadable, or leaves it malformed.
FileReplace ==
    /\ file.present
    /\ edits < MaxEdits
    /\ \E f \in {AbsentFile, LockedFile, GarbageFile} :
          /\ f # file
          /\ file' = f
    /\ edits' = edits + 1
    /\ last' = NoOp
    /\ UNCHANGED editorVars

\* ------------------------------------------------------------------------
\* Store operations
\* ------------------------------------------------------------------------

\* A call of Mapping::validate(path, pid).  On a missing path the read writes
\* the default file, which counts as a change of the file.
Validate ==
    \E pid \in PidPool, w \in (IF file.present THEN {"written"} ELSE WriteOutcomes) :
       LET r == Mapping_validate(file, pid, w) IN
       /\ r.file # file => edits < MaxEdits
       /\ file' = r.file
       /\ edits' = IF r.file # file THEN edits + 1 ELSE edits
       /\ last' = [op |-> "validate", pid |-> pid, res |-> r.res,
                   wrote |-> (r.file # file), arg |-> None, value |-> None]
       /\ UNCHANGED editorVars

\* A call of Mapping::read(path).
Read ==
    \E w \in (IF file.present THEN {"written"} ELSE WriteOutcomes) :
       LET r == Mapping_read(file, w) IN
       /\ r.file # file => edits < MaxEdits
       /\ file' = r.file
       /\ edits' = IF r.file # file THEN edits + 1 ELSE edits
       /\ last' = [op |-> "read", pid |-> None, res |-> r.res,
                   wrote |-> (r.file # file),
                   arg |-> IF last.op = "save" /\ last.res.ok THEN last.arg ELSE None,
                   value |-> r.value]
       /\ UNCHANGED editorVars

\* A call of Mapping::save(config, path).
Save ==
    \E config \in SaveConfigs, w \in WriteOutcomes :
       LET r == Mapping_save(config, file, w) IN
       /\ r.file # file => edits < MaxEdits
       /\ file' = r.file
       /\ edits' = IF r.file # file THEN edits + 1 ELSE edits
       /\ last' = [op |-> "save", pid |-> None, res |-> r.res,
                   wrote |-> (r.file # file), arg |-> Some(config), value |-> None]
       /\ UNCHANGED editorVars

\* The caller drops the result of the last operation.
Forget ==
    /\ last.op # "none"
    /\ last' = NoOp
    /\ UNCHANGED << file, edits >>
    /\ UNCHANGED editorVars

\* The store on its own: the editor is not running.
Init ==
    /\ file \in {AbsentFile} \cup { FileOf(d) : d \in SampleDocs }
    /\ last = NoOp
    /\ edits = 0
    /\ data = DATA
    /\ app = MacropadApp_new(DATA.macropad_data)
    /\ threads = << >>
    /\ programmed = << >>
    /\ events = 0
    /\ LockIdle

Next ==
    \/ FileSetButton \/ FileMistypeButton
    \/ FileAddLayer \/ FileRemoveLayer
    \/ FileAddRow \/ FileRemoveRow
    \/ FileAddButton \/ FileRemoveButton
    \/ FileAddKnob \/ FileRemoveKnob
    \/ FileSetRows \/ FileSetCols \/ FileSetKnobs \/ FileSetLayersField
    \/ FileReplace
    \/ Validate
    \/ Read
    \/ Save
    \/ Forget

Spec == Init /\ [][Next]_vars

\* ------------------------------------------------------------------------
\* The editor: bounds and inputs
\* ------------------------------------------------------------------------

MaxEvents == 3
MaxThreads == 2
UiMaxRows == 2
UiMaxCols == 3
UiMaxKnobs == 1

\* Text a user types into the mapping field.
EditorMappings == { M_empty, M_a, M_foobar, M_a_dash_b }

\* Text a user types into the delay field: "50", "6001", "65536" and "5x".
EditorDelays ==
    { << "5", "0" >>, << "6", "0", "0", "1" >>, << "6", "5", "5", "3", "6" >>,
      << "5", "x" >> }

\* What find_device reports: no device, or the product id of the one found.
DevicePids == { None, Some(PID_8840), Some(PID_8842), Some(PID_8890) }

\* A file whose layers differ in shape: the second has one Button less.
UnevenDoc ==
    [SampleDoc(2, 1, 2, 1) EXCEPT !.layers[2].buttons[1] = << SampleButton >>]

\* A file whose only layer has fewer rows than the device declares.
ShortDoc == [SampleDoc(1, 1, 2, 0) EXCEPT !.device.rows = 2]

\* A file that declares no layers and holds none.
EmptyDoc == SampleDoc(0, 1, 2, 1)

\* The configuration file the editor finds when it starts.
StartFiles ==
    { AbsentFile, GarbageFile, FileOf(SampleDoc(2, 1, 2, 1)), FileOf(UnevenDoc),
      FileOf(ShortDoc), FileOf(EmptyDoc) }

\* A thread spawned by the UI thread: its kind, what it captured and the
\* result of its USB call once made ("" before).
Thread(kind, config, led) == [kind |-> kind, config |-> config, led |-> led, result |-> ""]

NoLed == [mode |-> 0, layer |-> 0, color |-> ""]

NoConfig == Macropad_new(0, 0, 0)

RemoveAt(seq, i) == SubSeq(seq, 1, i - 1) \o SubSeq(seq, i + 1, Len(seq))

\* ------------------------------------------------------------------------
\* The editor: actions
\* ------------------------------------------------------------------------

\* The UI thread is alive and the last frame drew the grid.
UiReady == ~app.panicked /\ ~render_panics(data)

\* A UI event is handled; it uses one unit of the budget of events.
UiEvent ==
    /\ UiReady
    /\ events < MaxEvents
    /\ events' = events + 1
    /\ UNCHANGED << last, edits >>
    /\ UNCHANGED lockVars

Panicked(a) == [a EXCEPT !.panicked = TRUE]

\* update, line 223: the connection check is due and its thread is spawned.
PollConnection ==
    /\ UiEvent
    /\ Len(threads) < MaxThreads
    /\ threads' = Append(threads, Thread("conn", NoConfig, NoLed))
    /\ UNCHANGED << file, data, app, programmed >>

\* The thread of check_connection: find_device, then DATA.connected_pid.
ConnThread ==
    \E i \in 1..Len(threads), pid \in DevicePids :
       /\ threads[i].kind = "conn"
       /\ threads' = RemoveAt(threads, i)
       /\ data' = IF app.panicked THEN data ELSE [data EXCEPT !.connected_pid = pid]
       /\ UNCHANGED << file, last, edits, app, programmed, events >>
       /\ UNCHANGED lockVars

ChooseLayers ==
    /\ UiEvent
    /\ \E i \in 1..3 : i # app.ui_layers /\ app' = [app EXCEPT !.ui_layers = i]
    /\ UNCHANGED << file, data, threads, programmed >>

ChooseRows ==
    /\ UiEvent
    /\ \E i \in 1..UiMaxRows : i # app.ui_rows /\ app' = [app EXCEPT !.ui_rows = i]
    /\ UNCHANGED << file, data, threads, programmed >>

ChooseCols ==
    /\ UiEvent
    /\ \E i \in 1..UiMaxCols : i # app.ui_cols /\ app' = [app EXCEPT !.ui_cols = i]
    /\ UNCHANGED << file, data, threads, programmed >>

ChooseKnobs ==
    /\ UiEvent
    /\ \E i \in 0..UiMaxKnobs : i # app.ui_knobs /\ app' = [app EXCEPT !.ui_knobs = i]
    /\ UNCHANGED << file, data, threads, programmed >>

ChooseOrientation ==
    /\ UiEvent
    /\ \E o \in Orientations :
          o # app.ui_orientation /\ app' = [app EXCEPT !.ui_orientation = o]
    /\ UNCHANGED << file, data, threads, programmed >>

\* The Apply Layout button, shown when a chosen value differs from the device.
ClickApplyLayout ==
    /\ UiEvent
    /\ LET dev == data.macropad_data.device IN
       \/ app.ui_rows # dev.rows \/ app.ui_cols # dev.cols \/ app.ui_knobs # dev.knobs
       \/ app.ui_layers # dev.layers \/ app.ui_orientation # dev.orientation
    /\ data' = apply_layout_data(app, data)
    /\ app' = apply_layout_app(app)
    /\ UNCHANGED << file, threads, programmed >>

ChooseLedMode ==
    /\ UiEvent
    /\ \E m \in get_led_modes(unwrap_or(data.connected_pid, PID_8840)) :
          m # app.led_mode /\ app' = [app EXCEPT !.led_mode = m]
    /\ UNCHANGED << file, data, threads, programmed >>

ChooseLedLayer ==
    /\ UiEvent
    /\ \E i \in 1..3 : i # app.led_layer /\ app' = [app EXCEPT !.led_layer = i]
    /\ UNCHANGED << file, data, threads, programmed >>

ChooseLedColor ==
    /\ UiEvent
    /\ \E c \in LedColors : c # app.led_color /\ app' = [app EXCEPT !.led_color = c]
    /\ UNCHANGED << file, data, threads, programmed >>

\* The Apply LED button: the edit is written back, the configuration saved
\* (the result of save dropped) and the LED thread spawned.
ClickApplyLed ==
    /\ UiEvent
    /\ Len(threads) < MaxThreads
    /\ IF sync_temp_to_data_panics(app, data)
       THEN /\ app' = Panicked(app)
            /\ UNCHANGED << file, data, threads >>
       ELSE \E w \in WriteOutcomes :
            LET d == sync_temp_to_data(app, data) IN
            /\ data' = d
            /\ file' = Mapping_save(d.macropad_data, file, w).file
            /\ threads' = Append(threads,
                   Thread("led", NoConfig,
                          [mode |-> app.led_mode, layer |-> app.led_layer,
                           color |-> app.led_color]))
            /\ UNCHANGED app
    /\ UNCHANGED programmed

\* The LED thread: open_keyboard, then kb.set_led.
LedThreadRun ==
    \E i \in 1..Len(threads), r \in {"USB error", "LED Error", "LED updated!"} :
       /\ threads[i].kind = "led" /\ threads[i].result = ""
       /\ threads' = [threads EXCEPT ![i].result = r]
       /\ UNCHANGED << file, last, edits, data, app, programmed, events >>
       /\ UNCHANGED lockVars

\* The LED thread: set_status, which does nothing on a poisoned mutex.
LedThreadReport ==
    \E i \in 1..Len(threads) :
       /\ threads[i].kind = "led" /\ threads[i].result # ""
       /\ threads' = RemoveAt(threads, i)
       /\ data' = IF app.panicked THEN data
                  ELSE [data EXCEPT !.status =
                           Status(threads[i].result,
                                  IF threads[i].result = "LED updated!" THEN "GREEN"
                                  ELSE "RED", << >>)]
       /\ UNCHANGED << file, last, edits, app, programmed, events >>
       /\ UNCHANGED lockVars

\* The Save Config button: the result of save is dropped and the status set.
ClickSaveConfig ==
    /\ UiEvent
    /\ IF sync_temp_to_data_panics(app, data)
       THEN /\ app' = Panicked(app)
            /\ UNCHANGED << file, data >>
       ELSE \E w \in WriteOutcomes :
            LET d == sync_temp_to_data(app, data) IN
            /\ file' = Mapping_save(d.macropad_data, file, w).file
            /\ data' = [d EXCEPT !.status = Status("Config saved", "GREEN", << >>)]
            /\ UNCHANGED app
    /\ UNCHANGED << threads, programmed >>

\* The Program Device button: the edit is written back, the configuration
\* cloned for the thread, the status set and the thread spawned.
ClickProgramDevice ==
    /\ UiEvent
    /\ Len(threads) < MaxThreads
    /\ IF sync_temp_to_data_panics(app, data)
       THEN /\ app' = Panicked(app)
            /\ UNCHANGED << data, threads >>
       ELSE LET d == sync_temp_to_data(app, data)
                config == d.macropad_data IN
            /\ data' = [d EXCEPT !.status = Status("Programming...", "GOLD", << >>)]
            /\ threads' = Append(threads, Thread("program", config, NoLed))
            /\ UNCHANGED app
    /\ UNCHANGED << file, programmed >>

\* The programming thread: open_keyboard and, when it opens, kb.program(&config).
ProgramThreadRun ==
    \E i \in 1..Len(threads), r \in {"USB error", "Error", "Programmed successfully!"} :
       /\ threads[i].kind = "program" /\ threads[i].result = ""
       /\ threads' = [threads EXCEPT ![i].result = r]
       /\ programmed' = IF r = "USB error" THEN programmed
                        ELSE Append(programmed, threads[i].config)
       /\ UNCHANGED << file, last, edits, data, app, events >>
       /\ UNCHANGED lockVars

\* The programming thread: set_status, which does nothing on a poisoned mutex.
ProgramThreadReport ==
    \E i \in 1..Len(threads) :
       /\ threads[i].kind = "program" /\ threads[i].result # ""
       /\ threads' = RemoveAt(threads, i)
       /\ data' = IF app.panicked THEN data
                  ELSE [data EXCEPT !.status =
                           Status(threads[i].result,
                                  IF threads[i].result = "Programmed successfully!"
                                  THEN "GREEN" ELSE "RED", << >>)]
       /\ UNCHANGED << file, last, edits, app, programmed, events >>
       /\ UNCHANGED lockVars

\* The handlers that write the edit back, move the layer or the selection
\* and load the edit fields: sync_temp_to_data, the assignment,
\* sync_data_to_temp; a panic leaves what was assigned before it.
Reselect(layer_idx, sel) ==
    IF sync_temp_to_data_panics(app, data)
    THEN /\ app' = Panicked(app)
         /\ UNCHANGED data
    ELSE LET d == [sync_temp_to_data(app, data) EXCEPT
                      !.current_layer_idx = layer_idx, !.selection = sel] IN
         /\ data' = d
         /\ app' = IF sync_data_to_temp_panics(d) THEN Panicked(app)
                   ELSE sync_data_to_temp(app, d)

\* A layer tab; there is one for each of device.layers.
ClickLayerTab ==
    /\ UiEvent
    /\ \E i \in 0..(data.macropad_data.device.layers - 1) :
          Reselect(i, data.selection)
    /\ UNCHANGED << file, threads, programmed >>

\* A Button of the grid drawn for the current layer.
ClickGridButton ==
    /\ UiEvent
    /\ data.current_layer_idx < Len(data.macropad_data.layers)
    /\ \E row \in 0..(data.macropad_data.device.rows - 1),
          col \in 0..(data.macropad_data.device.cols - 1) :
          Reselect(data.current_layer_idx, Selection_Button(row, col))
    /\ UNCHANGED << file, threads, programmed >>

\* A part of a knob drawn for the current layer.
ClickKnobPart ==
    /\ UiEvent
    /\ data.current_layer_idx < Len(data.macropad_data.layers)
    /\ \E i \in 0..(data.macropad_data.device.knobs - 1), part \in KnobParts :
          Reselect(data.current_layer_idx, Selection_Knob(i, part))
    /\ UNCHANGED << file, threads, programmed >>

\* The edit fields are shown while something is selected in a drawn layer;
\* a change of one is written back at once.
Edit(a) ==
    /\ data.current_layer_idx < Len(data.macropad_data.layers)
    /\ data.selection.kind # "None"
    /\ IF sync_temp_to_data_panics(a, data)
       THEN /\ app' = Panicked(a)
            /\ UNCHANGED data
       ELSE /\ app' = a
            /\ data' = sync_temp_to_data(a, data)

EditDelay ==
    /\ UiEvent
    /\ \E t \in EditorDelays :
          /\ t # app.temp_delay_val
          /\ Edit([app EXCEPT !.temp_delay_val = t])
    /\ UNCHANGED << file, threads, programmed >>

EditMapping ==
    /\ UiEvent
    /\ \E t \in EditorMappings :
          /\ t # app.temp_editor_val
          /\ Edit([app EXCEPT !.temp_editor_val = t])
    /\ UNCHANGED << file, threads, programmed >>

\* A frame whose central panel indexes out of range: the UI thread panics
\* holding the lock of DATA.
UpdatePanics ==
    /\ ~app.panicked
    /\ render_panics(data)
    /\ app' = Panicked(app)
    /\ UNCHANGED << file, last, edits, data, threads, programmed, events >>
    /\ UNCHANGED lockVars

\* The editor after MacropadApp::new: the configuration read from the file
\* found at start, or the default when the read fails.
EditorInit ==
    /\ \E f \in StartFiles, w \in WriteOutcomes :
          LET rd == Mapping_read(f, w)
              initial_data == IF rd.res.ok THEN rd.value[1] ELSE Macropad_new(2, 3, 1)
          IN  /\ file = rd.file
              /\ data = [DATA EXCEPT !.macropad_data = initial_data]
              /\ app = MacropadApp_new(initial_data)
    /\ threads = << >>
    /\ programmed = << >>
    /\ events = 0
    /\ last = NoOp
    /\ edits = 0
    /\ LockIdle

EditorNext ==
    \/ PollConnection \/ ConnThread
    \/ ChooseLayers \/ ChooseRows \/ ChooseCols \/ ChooseKnobs \/ ChooseOrientation
    \/ ClickApplyLayout
    \/ ChooseLedMode \/ ChooseLedLayer \/ ChooseLedColor
    \/ ClickApplyLed \/ LedThreadRun \/ LedThreadReport
    \/ ClickSaveConfig
    \/ ClickProgramDevice \/ ProgramThreadRun \/ ProgramThreadReport
    \/ ClickLayerTab \/ ClickGridButton \/ ClickKnobPart
    \/ EditDelay \/ EditMapping
    \/ UpdatePanics

EditorSpec == EditorInit /\ [][EditorNext]_vars

\* ------------------------------------------------------------------------
\* The Mutex of DATA: who locks it, where, and for how long
\* ------------------------------------------------------------------------

MaxClicks == 2

\* One instruction of the UI thread that matters for the Mutex: lock
\* (DATA.lock().unwrap()), unlock (the guard goes out of scope), index (code
\* that indexes layers, rows, columns or knobs and may panic), status (a
\* write of status_msg) and spawn (thread::spawn).
Ins(op, arg) == [op |-> op, arg |-> arg]

\* The handler of the button clicked in the side panel, if any: apply_layout
\* (lines 130-166), Apply LED (323-334), Save Config (336-339) and Program
\* Device (341-351).  Each guard is dropped at the end of its block.
Handler(event) ==
    CASE event = "layout" ->
             << Ins("lock", "apply_layout"), Ins("unlock", "apply_layout") >>
      [] event = "led" ->
             << Ins("lock", "apply_led"), Ins("index", "sync_temp_to_data"),
                Ins("spawn", "led"), Ins("unlock", "apply_led") >>
      [] event = "save" ->
             << Ins("lock", "save_config"), Ins("index", "sync_temp_to_data"),
                Ins("status", "Config saved"), Ins("unlock", "save_config") >>
      [] event = "program" ->
             << Ins("lock", "program_device"), Ins("index", "sync_temp_to_data"),
                Ins("status", "Programming..."), Ins("spawn", "program"),
                Ins("unlock", "program_device") >>
      [] OTHER -> << >>

\* update keeping the guard of the side panel for the whole closure, handlers
\* included.
Frame_SidePanelHolds(event, poll) ==
    (IF poll THEN << Ins("spawn", "conn") >> ELSE << >>)
    \o << Ins("lock", "top_panel"), Ins("unlock", "top_panel"),
          Ins("lock", "status_bar"), Ins("unlock", "status_bar"),
          Ins("lock", "side_panel") >>
    \o Handler(event)
    \o << Ins("unlock", "side_panel"), Ins("lock", "layer_tabs") >>
    \o (IF event = "tab" THEN << Ins("index", "sync_temp_to_data") >> ELSE << >>)
    \o << Ins("unlock", "layer_tabs"),
          Ins("lock", "grid"), Ins("index", "grid"), Ins("unlock", "grid") >>

\* The instructions of one call of update (lines 222-418): the connection
\* check when it is due, the top panel, the status bar, the read of the
\* device fields in the side panel, the handler of a clicked button, the
\* layer tabs and the grid.
Frame(event, poll) ==
    (IF poll THEN << Ins("spawn", "conn") >> ELSE << >>)
    \o << Ins("lock", "top_panel"), Ins("unlock", "top_panel"),
          Ins("lock", "status_bar"), Ins("unlock", "status_bar"),
          Ins("lock", "side_panel"), Ins("unlock", "side_panel") >>
    \o Handler(event)
    \o << Ins("lock", "layer_tabs") >>
    \o (IF event = "tab" THEN << Ins("index", "sync_temp_to_data") >> ELSE << >>)
    \o << Ins("unlock", "layer_tabs"),
          Ins("lock", "grid"), Ins("index", "grid"), Ins("unlock", "grid") >>

\* What the user does in a frame, as far as the Mutex is concerned.
UiEvents == {"none", "layout", "led", "save", "program", "tab"}

\* The threads a frame spawns.
SpawnsOf(event, poll) ==
    (IF poll THEN 1 ELSE 0) + (IF event \in {"led", "program"} THEN 1 ELSE 0)

FreeSlots == { w \in WorkerSlots : workers[w].kind = "none" }

\* The instruction the UI thread is at; none between two frames.
UiAt(op) ==
    /\ ~ui.dead
    /\ ui.pc \in 1..Len(Frame(ui.event, ui.poll))
    /\ Frame(ui.event, ui.poll)[ui.pc].op = op

UiIns == Frame(ui.event, ui.poll)[ui.pc]

oldVars == << file, last, edits, data, app, threads, programmed, events >>

\* update is called: the frame's event, and whether the connection check is due.
StartFrame ==
    /\ ~ui.dead /\ ui.pc = 0
    /\ \E event \in UiEvents, poll \in BOOLEAN :
          /\ SpawnsOf(event, poll) <= Cardinality(FreeSlots)
          /\ event = "program" => ui.clicks < MaxClicks
          /\ ui' = [ui EXCEPT !.event = event, !.poll = poll, !.pc = 1]
    /\ UNCHANGED << mutex, workers, log >>
    /\ UNCHANGED oldVars

\* DATA.lock().unwrap() on the UI thread: it blocks while the Mutex is held,
\* by whomever; on a poisoned Mutex unwrap panics.
UiLock ==
    /\ UiAt("lock")
    /\ mutex.holder = ""
    /\ IF mutex.poisoned
       THEN ui' = [ui EXCEPT !.dead = TRUE] /\ UNCHANGED mutex
       ELSE ui' = [ui EXCEPT !.pc = @ + 1] /\ mutex' = [mutex EXCEPT !.holder = "ui"]
    /\ UNCHANGED << workers, log >>
    /\ UNCHANGED oldVars

\* The guard goes out of scope.
UiUnlock ==
    /\ UiAt("unlock")
    /\ ui' = [ui EXCEPT !.pc = @ + 1]
    /\ mutex' = [mutex EXCEPT !.holder = ""]
    /\ UNCHANGED << workers, log >>
    /\ UNCHANGED oldVars

\* Code that indexes the layers: it returns, or it panics, and the guard
\* dropped while unwinding poisons the Mutex.
UiIndex ==
    /\ UiAt("index")
    /\ \/ ui' = [ui EXCEPT !.pc = @ + 1] /\ UNCHANGED mutex
       \/ /\ ui' = [ui EXCEPT !.dead = TRUE]
          /\ mutex' = IF mutex.holder = "ui" THEN [holder |-> "", poisoned |-> TRUE]
                      ELSE mutex
    /\ UNCHANGED << workers, log >>
    /\ UNCHANGED oldVars

\* A write of the status by the UI thread; the one of Program Device starts
\* a new click.
UiStatus ==
    /\ UiAt("status")
    /\ IF UiIns.arg = "Programming..."
       THEN /\ ui' = [ui EXCEPT !.pc = @ + 1, !.clicks = @ + 1]
            /\ log' = Append(log, [by |-> "ui", click |-> ui.clicks + 1])
       ELSE /\ ui' = [ui EXCEPT !.pc = @ + 1]
            /\ UNCHANGED log
    /\ UNCHANGED << mutex, workers >>
    /\ UNCHANGED oldVars

\* thread::spawn: the thread starts with its USB call.
UiSpawn ==
    /\ UiAt("spawn")
    /\ FreeSlots # {}
    /\ LET w == CHOOSE x \in FreeSlots : TRUE IN
       workers' = [workers EXCEPT ![w] =
                      [kind |-> UiIns.arg, pc |-> "usb",
                       click |-> IF UiIns.arg = "program" THEN ui.clicks ELSE 0]]
    /\ ui' = [ui EXCEPT !.pc = @ + 1]
    /\ UNCHANGED << mutex, log >>
    /\ UNCHANGED oldVars

\* update returns.
EndFrame ==
    /\ ~ui.dead
    /\ ui.pc = Len(Frame(ui.event, ui.poll)) + 1
    /\ ui' = [ui EXCEPT !.event = "none", !.poll = FALSE, !.pc = 0]
    /\ UNCHANGED << mutex, workers, log >>
    /\ UNCHANGED oldVars

\* A spawned thread makes its USB call: find_device (line 113),
\* open_keyboard with set_led (328-331) or with program (346-349).
WorkerRun(w) ==
    /\ workers[w].pc = "usb"
    /\ workers' = [workers EXCEPT ![w].pc = "want"]
    /\ UNCHANGED << mutex, ui, log >>
    /\ UNCHANGED oldVars

\* DATA.lock() in a thread (lines 117, 124): it blocks while the Mutex is
\* held; on a poisoned Mutex it returns Err and the thread writes nothing.
WorkerLock(w) ==
    /\ workers[w].pc = "want"
    /\ mutex.holder = ""
    /\ IF mutex.poisoned
       THEN workers' = [workers EXCEPT ![w] = NoWorker] /\ UNCHANGED mutex
       ELSE /\ workers' = [workers EXCEPT ![w].pc = "held"]
            /\ mutex' = [mutex EXCEPT !.holder = w]
    /\ UNCHANGED << ui, log >>
    /\ UNCHANGED oldVars

\* The thread writes connected_pid or the status, drops the guard and ends.
WorkerWrite(w) ==
    /\ workers[w].pc = "held"
    /\ log' = IF workers[w].kind = "program"
              THEN Append(log, [by |-> "thread", click |-> workers[w].click])
              ELSE log
    /\ mutex' = [mutex EXCEPT !.holder = ""]
    /\ workers' = [workers EXCEPT ![w] = NoWorker]
    /\ UNCHANGED ui
    /\ UNCHANGED oldVars

\* The editor as far as the Mutex is concerned: the edited data is left out.
LockInit ==
    /\ file = AbsentFile
    /\ last = NoOp
    /\ edits = 0
    /\ data = DATA
    /\ app = MacropadApp_new(DATA.macropad_data)
    /\ threads = << >>
    /\ programmed = << >>
    /\ events = 0
    /\ LockIdle

LockNext ==
    \/ StartFrame \/ UiLock \/ UiUnlock \/ UiIndex \/ UiStatus \/ UiSpawn \/ EndFrame
    \/ \E w \in WorkerSlots : WorkerRun(w) \/ WorkerLock(w) \/ WorkerWrite(w)

\* Every thread that can run does, and a thread blocked in lock() is woken
\* when the Mutex is released: the UI thread sleeps between frames
\* (request_repaint_after, line 417) and holds no guard meanwhile.
LockFairness ==
    /\ WF_vars(StartFrame \/ UiUnlock \/ UiIndex \/ UiStatus \/ UiSpawn \/ EndFrame)
    /\ SF_vars(UiLock)
    /\ \A w \in WorkerSlots :
          /\ WF_vars(WorkerRun(w) \/ WorkerWrite(w))
          /\ SF_vars(WorkerLock(w))

LockSpec == LockInit /\ [][LockNext]_vars /\ LockFairness

\* ------------------------------------------------------------------------
\* Properties of the editor
\* ------------------------------------------------------------------------

\* The product ids validate accepts: none, and the three supported ones.
AcceptedPids == { None, Some(PID_8840), Some(PID_8842), Some(PID_8890) }

\* C1 as claimed: every configuration handed to kb.program is approved by
\* the validator (for at least one of the product ids it accepts).
Claim_C1 ==
    \A i \in 1..Len(programmed) :
        \E pid \in AcceptedPids : ValidateCfg(programmed[i], pid).ok

\* ------------------------------------------------------------------------
\* Properties of the validator
\* ------------------------------------------------------------------------

\* The last operation was validate with an accepted product id, and it read
\* the configuration the file holds.
Validated == last.op = "validate" /\ KnownPid(last.pid) /\ Readable

\* The configuration validate read.
Cfg == from_reader(file.doc)

Buttons == ButtonPositions(Cfg.layers)

\* Number of compound actions of a mapping: its commas plus one.
NumKeys(mapping) == Cardinality({ i \in 1..Len(mapping) : mapping[i] = "," }) + 1

\* The cap on compound actions the target family has.
CapOf(pid) ==
    IF pid = None THEN 255
    ELSE IF pid[1] = PID_8890 THEN MAX_KEY_PRESSES_8890
    ELSE MAX_KEY_PRESSES_884X

\* The Button an error names (the default, where it names none).
ErrButton(res) ==
    IF res.btn > 0 THEN Cfg.layers[res.layer].buttons[res.row][res.btn]
    ELSE IF res.knob > 0 THEN ButtonAt(Cfg.layers, <<res.layer, res.part, res.knob, 0>>)
    ELSE Button_new

NamesButton(res) == res.btn > 0 \/ res.knob > 0

\* The configuration with every delay set to 0.
ZeroDelay(b) == [b EXCEPT !.delay = 0]

ZeroDelays(cfg) ==
    [cfg EXCEPT !.layers =
        [l \in 1..Len(cfg.layers) |->
            [buttons |-> [r \in 1..Len(cfg.layers[l].buttons) |->
                             [c \in 1..Len(cfg.layers[l].buttons[r]) |->
                                 ZeroDelay(cfg.layers[l].buttons[r][c])]],
             knobs |-> [k \in 1..Len(cfg.layers[l].knobs) |->
                           [ccw |-> ZeroDelay(cfg.layers[l].knobs[k].ccw),
                            press |-> ZeroDelay(cfg.layers[l].knobs[k].press),
                            cw |-> ZeroDelay(cfg.layers[l].knobs[k].cw)]]]]]

\* The tokens of the i-th compound action of a mapping.
TokensOf(mapping, i) == split(split(mapping, ",")[i], "-")

IsModifierToken(t) == is_modifier_key(uppercase_first(t))

\* C2: for every accepted product id, validate returns an error when the
\* configuration has 0 or more than 3 layers, and never gives the
\* layer-count error when it has 1, 2 or 3.
Thm_C2 ==
    Validated =>
        /\ Len(Cfg.layers) \notin 1..3 => ~last.res.ok
        /\ Len(Cfg.layers) \in 1..3 =>
               last.res.msg # "number of layers must be > 0 and < 4"

Wit_C2 ==
    /\ Validated /\ Len(Cfg.layers) = 4 /\ ~last.res.ok
    /\ last.pid = Some(PID_8842)

\* C3: whenever validate succeeds, every layer has device.rows rows, every
\* row device.cols Buttons, and every layer device.knobs knobs.
Thm_C3 ==
    (Validated /\ last.res.ok) =>
        \A l \in 1..Len(Cfg.layers) :
            /\ Len(Cfg.layers[l].buttons) = Cfg.device.rows
            /\ \A r \in 1..Len(Cfg.layers[l].buttons) :
                   Len(Cfg.layers[l].buttons[r]) = Cfg.device.cols
            /\ Len(Cfg.layers[l].knobs) = Cfg.device.knobs

\* validate succeeded on a geometry that is none of the initial ones.
Wit_C3 ==
    /\ Validated /\ last.res.ok
    /\ Cfg.device.rows = 1 /\ Cfg.device.cols = 1 /\ Cfg.device.knobs = 0

\* C4 as claimed: whenever validate succeeds, the number of layers present
\* equals the declared device.layers.
Claim_C4 ==
    (Validated /\ last.res.ok) => Len(Cfg.layers) = Cfg.device.layers

\* A compound action is well formed when every token but the last is a
\* modifier and the last is not.
WellFormedCompound(tokens) ==
    /\ \A n \in 1..(Len(tokens) - 1) : IsModifierToken(tokens[n])
    /\ ~IsModifierToken(tokens[Len(tokens)])

\* C5 as claimed: validate rejects every configuration with a Button that
\* has a compound action with a non-modifier before its last token or a
\* modifier as its last token.
Claim_C5 ==
    (Validated /\ \E pos \in Buttons :
        \E i \in 1..NumKeys(ButtonAt(Cfg.layers, pos).mapping) :
            ~WellFormedCompound(TokensOf(ButtonAt(Cfg.layers, pos).mapping, i)))
    => ~last.res.ok

\* C6 as claimed: under 0x8890, validate rejects every configuration with a
\* Button in which a compound action after the first has a modifier token.
Claim_C6 ==
    (Validated /\ last.pid = Some(PID_8890) /\ \E pos \in Buttons :
        \E i \in 2..NumKeys(ButtonAt(Cfg.layers, pos).mapping) :
            LET tokens == TokensOf(ButtonAt(Cfg.layers, pos).mapping, i) IN
            \E n \in 1..Len(tokens) : IsModifierToken(tokens[n]))
    => ~last.res.ok

\* A Button has a token that is a media key outside the whitelist.
HasOtherMediaKey(b) ==
    \E i \in 1..NumKeys(b.mapping) :
        LET tokens == TokensOf(b.mapping, i) IN
        \E n \in 1..Len(tokens) :
            /\ ~IsModifierToken(tokens[n])
            /\ is_media_key(uppercase_first(tokens[n]))
            /\ uppercase_first(tokens[n]) \notin MediaWhitelist_8890

\* C7: under 0x8890 a configuration with a Button holding a media key outside
\* the whitelist is rejected; under the other families and with no product
\* id no media key is ever the cause of an error.
Thm_C7 ==
    Validated =>
        /\ (last.pid = Some(PID_8890)
            /\ \E pos \in Buttons : HasOtherMediaKey(ButtonAt(Cfg.layers, pos)))
           => ~last.res.ok
        /\ last.pid # Some(PID_8890) =>
               last.res.msg # "unsupported media key for 8890"

Wit_C7 ==
    /\ Validated /\ last.pid = Some(PID_8890)
    /\ last.res.msg = "unsupported media key for 8890"
    /\ ErrButton(last.res).mapping = M_brightnessup

\* C8: under 0x8890 the verdict is the one the configuration gets with every
\* delay set to 0.
Thm_C8 ==
    (Validated /\ last.pid = Some(PID_8890)) =>
        last.res.ok = ValidateCfg(ZeroDelays(Cfg), last.pid).ok

Wit_C8 ==
    /\ Validated /\ last.pid = Some(PID_8890) /\ last.res.ok
    /\ \E pos \in Buttons : ButtonAt(Cfg.layers, pos).delay > MAX_DELAY

\* C9: under 0x8840, 0x8842 and with no product id, a Button with a delay
\* above MAX_DELAY makes validate fail, and with every delay at most
\* MAX_DELAY the verdict is the one the configuration gets with delay 0.
Thm_C9 ==
    (Validated /\ last.pid # Some(PID_8890)) =>
        /\ (\E pos \in Buttons : ButtonAt(Cfg.layers, pos).delay > MAX_DELAY)
           => ~last.res.ok
        /\ (\A pos \in Buttons : ButtonAt(Cfg.layers, pos).delay <= MAX_DELAY)
           => /\ last.res.msg # "delay too high"
              /\ last.res.ok = ValidateCfg(ZeroDelays(Cfg), last.pid).ok

\* validate failed for the delay of a knob part.
Wit_C9 ==
    /\ Validated /\ last.pid = None
    /\ last.res.msg = "delay too high" /\ last.res.knob > 0
    /\ ErrButton(last.res).delay = MAX_DELAY + 1

\* C10: a Button with more compound actions than the cap of the family makes
\* validate fail; the capacity error names a Button over the cap; and a
\* Button over the cap that is the first to fail fails for its capacity,
\* whatever its delay and its tokens.
Thm_C10 ==
    Validated =>
        /\ (\E pos \in Buttons :
               NumKeys(ButtonAt(Cfg.layers, pos).mapping) > CapOf(last.pid))
           => ~last.res.ok
        /\ last.res.msg = "Too many keys" =>
               /\ NamesButton(last.res)
               /\ NumKeys(ErrButton(last.res).mapping) > CapOf(last.pid)
        /\ (NamesButton(last.res)
            /\ NumKeys(ErrButton(last.res).mapping) > CapOf(last.pid))
           => last.res.msg = "Too many keys"

\* The capacity error for a Button that also has a delay over the ceiling
\* and unknown tokens.
Wit_C10 ==
    /\ Validated /\ last.pid = Some(PID_8840)
    /\ last.res.msg = "Too many keys"
    /\ ErrButton(last.res).delay > MAX_DELAY
    /\ ErrButton(last.res).mapping = Commas(MAX_KEY_PRESSES_884X + 1)

\* C11: validate with a product id other than 0x8840, 0x8842 and 0x8890
\* fails with the error that names the id, whatever the file holds, and
\* leaves the file as it was: a missing path stays missing.
Thm_C11 ==
    (last.op = "validate" /\ last.pid # None
     /\ last.pid[1] \notin {PID_8840, PID_8842, PID_8890}) =>
        /\ ~last.res.ok
        /\ last.res.msg = "Unknown product id"
        /\ last.res.id = last.pid[1]
        /\ ~last.wrote

\* validate with the id 0x1234 was called on a missing path, which is
\* still missing.
Wit_C11 ==
    /\ last.op = "validate" /\ last.pid = Some(4660)
    /\ last.res.id = 4660
    /\ ~file.present

\* The tokens of a mapping: for each compound action, its tokens.
TokenTable(mapping) ==
    LET keys == split(mapping, ",") IN
    [i \in 1..Len(keys) |-> split(keys[i], "-")]

\* A token that is none of modifier, media key, well-known key, mouse action.
IsUnknownToken(t) ==
    LET k == uppercase_first(t) IN
    ~(is_modifier_key(k) \/ is_media_key(k) \/ is_regular_key(k) \/ is_mouse_action(k))

HasUnknownToken(mapping) ==
    LET toks == TokenTable(mapping) IN
    \E i \in 1..Len(toks) : \E n \in 1..Len(toks[i]) : IsUnknownToken(toks[i][n])

\* The first unknown token of a mapping, left to right: << compound action,
\* place in it, token >>.
FirstUnknownToken(mapping) ==
    LET toks == TokenTable(mapping)
        i0 == CHOOSE i \in 1..Len(toks) :
                  /\ \E n \in 1..Len(toks[i]) : IsUnknownToken(toks[i][n])
                  /\ \A j \in 1..(i - 1) :
                         \A n \in 1..Len(toks[j]) : ~IsUnknownToken(toks[j][n])
        n0 == CHOOSE n \in 1..Len(toks[i0]) :
                  /\ IsUnknownToken(toks[i0][n])
                  /\ \A m \in 1..(n - 1) : ~IsUnknownToken(toks[i0][m])
    IN  << i0, n0, toks[i0][n0] >>

\* A check of Button b made before its first unknown token is classified
\* fails: the capacity, the delay, the position rule of 0x8890 up to the
\* compound action of the token, or the whitelist of 0x8890 on a token
\* before it.
EarlierCheckFails(b, pid) ==
    LET toks == TokenTable(b.mapping)
        first == FirstUnknownToken(b.mapping)
    IN  \/ Len(toks) > CapOf(pid)
        \/ pid # Some(PID_8890) /\ b.delay > MAX_DELAY
        \/ /\ pid = Some(PID_8890)
           /\ \/ \E i \in 2..first[1] : Len(toks[i]) > 1
              \/ \E i \in 1..first[1] : \E n \in 1..Len(toks[i]) :
                     /\ i < first[1] \/ n < first[2]
                     /\ ~IsModifierToken(toks[i][n])
                     /\ is_media_key(uppercase_first(toks[i][n]))
                     /\ uppercase_first(toks[i][n]) \notin MediaWhitelist_8890

\* C12: a Button with an unknown token makes validate fail; the unknown-key
\* error names the first unknown token, left to right, of the Button it is
\* about; and it is the error of a Button that has an unknown token and
\* passes every check made before that token is classified.
Thm_C12 ==
    Validated =>
        /\ (\E pos \in Buttons : HasUnknownToken(ButtonAt(Cfg.layers, pos).mapping))
           => ~last.res.ok
        /\ last.res.msg = "unknown key" =>
               /\ NamesButton(last.res)
               /\ HasUnknownToken(ErrButton(last.res).mapping)
               /\ last.res.token = FirstUnknownToken(ErrButton(last.res).mapping)[3]
        /\ (NamesButton(last.res)
            /\ HasUnknownToken(ErrButton(last.res).mapping)
            /\ ~EarlierCheckFails(ErrButton(last.res), last.pid))
           => /\ last.res.msg = "unknown key"
              /\ last.res.token = FirstUnknownToken(ErrButton(last.res).mapping)[3]

\* The mapping "foobar" rejected with the error naming "foobar".
Wit_C12 ==
    /\ Validated
    /\ last.res.msg = "unknown key" /\ last.res.token = M_foobar
    /\ ErrButton(last.res).mapping = M_foobar

\* Of the two unknown tokens of "qq,foobar" the error names the first.
Seen_C12_first ==
    /\ Validated
    /\ last.res.msg = "unknown key" /\ last.res.token = << "q", "q" >>
    /\ ErrButton(last.res).mapping = M_qq_foobar

\* The verdict of one Button on its own, under the pid of the last validate.
ButtonVerdict(b) == validate_key_mapping(b, CapOf(last.pid), last.pid)

\* Row r of a layer has the device's columns and only passing Buttons.
RowPasses(layer, r) ==
    /\ Len(layer.buttons[r]) = Cfg.device.cols
    /\ \A c \in 1..Len(layer.buttons[r]) : ButtonVerdict(layer.buttons[r][c]).ok

KnobPasses(knob) ==
    ButtonVerdict(knob.ccw).ok /\ ButtonVerdict(knob.press).ok /\ ButtonVerdict(knob.cw).ok

GridPasses(layer) ==
    /\ Len(layer.buttons) = Cfg.device.rows
    /\ \A r \in 1..Len(layer.buttons) : RowPasses(layer, r)

LayerPasses(layer) ==
    /\ GridPasses(layer)
    /\ Len(layer.knobs) = Cfg.device.knobs
    /\ \A k \in 1..Len(layer.knobs) : KnobPasses(layer.knobs[k])

\* The parts of a knob examined before part p.
PartsBefore(p) == IF p = "ccw" THEN {} ELSE IF p = "press" THEN {"ccw"} ELSE {"ccw", "press"}

KnobPart(knob, p) == IF p = "ccw" THEN knob.ccw ELSE IF p = "press" THEN knob.press ELSE knob.cw

\* Everything validate examines in layer l before the place the error
\* names passes, and the place itself fails with the error's message.
EarliestInLayer(res, layer) ==
    IF res.msg = "rows mismatch"
    THEN Len(layer.buttons) # Cfg.device.rows /\ res.row = 0 /\ res.btn = 0 /\ res.knob = 0
    ELSE IF res.msg = "cols mismatch"
    THEN /\ Len(layer.buttons) = Cfg.device.rows
         /\ res.row \in 1..Len(layer.buttons) /\ res.btn = 0 /\ res.knob = 0
         /\ \A r \in 1..(res.row - 1) : RowPasses(layer, r)
         /\ Len(layer.buttons[res.row]) # Cfg.device.cols
    ELSE IF res.btn > 0
    THEN /\ Len(layer.buttons) = Cfg.device.rows
         /\ res.row \in 1..Len(layer.buttons) /\ res.knob = 0 /\ res.part = ""
         /\ \A r \in 1..(res.row - 1) : RowPasses(layer, r)
         /\ Len(layer.buttons[res.row]) = Cfg.device.cols
         /\ res.btn \in 1..Len(layer.buttons[res.row])
         /\ \A c \in 1..(res.btn - 1) : ButtonVerdict(layer.buttons[res.row][c]).ok
         /\ ~ButtonVerdict(layer.buttons[res.row][res.btn]).ok
         /\ ButtonVerdict(layer.buttons[res.row][res.btn]).msg = res.msg
         /\ ButtonVerdict(layer.buttons[res.row][res.btn]).token = res.token
    ELSE IF res.msg = "knobs mismatch"
    THEN /\ GridPasses(layer)
         /\ Len(layer.knobs) # Cfg.device.knobs /\ res.row = 0 /\ res.knob = 0
    ELSE /\ GridPasses(layer)
         /\ Len(layer.knobs) = Cfg.device.knobs
         /\ res.knob \in 1..Len(layer.knobs) /\ res.row = 0
         /\ res.part \in KnobParts
         /\ \A k \in 1..(res.knob - 1) : KnobPasses(layer.knobs[k])
         /\ \A p \in PartsBefore(res.part) :
                ButtonVerdict(KnobPart(layer.knobs[res.knob], p)).ok
         /\ ~ButtonVerdict(KnobPart(layer.knobs[res.knob], res.part)).ok
         /\ ButtonVerdict(KnobPart(layer.knobs[res.knob], res.part)).msg = res.msg
         /\ ButtonVerdict(KnobPart(layer.knobs[res.knob], res.part)).token = res.token

\* C13: the error validate returns is that of the earliest violation in
\* traversal order (layers ascending; in a layer the row count, each row's
\* column count then its Buttons left to right, the knob count, each knob's
\* ccw, press, cw), with the 1-based place of the Button that caused it;
\* and validate succeeds only when there is no violation at all.
Thm_C13 ==
    Validated =>
        IF last.res.ok
        THEN /\ Len(Cfg.layers) \in 1..3
             /\ \A l \in 1..Len(Cfg.layers) : LayerPasses(Cfg.layers[l])
        ELSE IF Len(Cfg.layers) \notin 1..3
        THEN last.res.msg = "number of layers must be > 0 and < 4" /\ last.res.layer = 0
        ELSE /\ last.res.layer \in 1..Len(Cfg.layers)
             /\ \A l \in 1..(last.res.layer - 1) : LayerPasses(Cfg.layers[l])
             /\ EarliestInLayer(last.res, Cfg.layers[last.res.layer])

\* A layer with a mistyped Button in its grid and a knob too few: the error
\* is the Button's, which comes first.
Wit_C13 ==
    /\ Validated /\ ~last.res.ok
    /\ last.res.btn > 0 /\ last.res.msg = "unknown key"
    /\ Len(Cfg.layers[last.res.layer].knobs) # Cfg.device.knobs

\* A second validate of the same path with the same pid, run right after the
\* last one, for each outcome the write of a default can have.
SecondRuns == { Mapping_validate(file, last.pid, w) : w \in WriteOutcomes }

\* After a validate, running it again gives the same verdict, and the same
\* error in full unless the first run failed to write the default file.
Idempotent_C14 ==
    last.op = "validate" =>
        \A r \in SecondRuns :
            /\ r.res.ok = last.res.ok
            /\ last.res.msg # "Creating default config" => r.res = last.res
            /\ file.present => r.file = file

\* A validate step on an existing file leaves the file as it was.
ReadOnly_C14 ==
    (last'.op = "validate" /\ file.present) => file' = file

\* C14: validate is read-only and idempotent: two runs in succession with
\* the same path and pid give the same verdict, and a run on an existing
\* file leaves the persisted configuration unchanged.
Thm_C14 == [][ReadOnly_C14]_vars /\ []Idempotent_C14

\* The first run created the default file; the second finds it, writes
\* nothing and returns the same error.
Wit_C14 ==
    /\ last.op = "validate" /\ last.wrote /\ Readable
    /\ \A r \in SecondRuns : r.res = last.res /\ r.file = file

\* A step of read, save or validate (a hand edit leaves no operation in last).
StoreStep == last'.op \in {"read", "save", "validate"}

\* The file changes in a store step only if the step is a save, or a read
\* (validate's included) of a path where no file exists.
WritesOnly_C15 ==
    (StoreStep /\ file' # file) =>
        \/ last'.op = "save"
        \/ last'.op \in {"read", "validate"} /\ ~file.present

\* A read right after a read that left a file in place writes nothing.
SecondRead_C15 ==
    (last.op = "read" /\ last.res.msg # "Creating default config" /\ last'.op = "read") =>
        file' = file

\* After a read that did not fail to write the default, the file exists.
ReadLeavesFile_C15 ==
    (last.op = "read" /\ last.res.msg # "Creating default config") => file.present

\* C15: over read, save and validate operations the persisted content
\* changes only in a save or in the first read of a path where no file
\* exists; a read or validate of an existing file never writes, and a
\* second read never writes.
Thm_C15 == [][WritesOnly_C15 /\ SecondRead_C15]_vars /\ []ReadLeavesFile_C15

\* A read of a missing path has written the default file.
Wit_C15 ==
    /\ last.op = "read" /\ last.wrote /\ last.res.ok
    /\ file.present /\ edits > 0

\* The factory default written out: delay 0 and the empty mapping everywhere.
EmptyButton_C16 == [delay |-> 0, mapping |-> << >>]

DefaultLayer_C16 ==
    [buttons |-> << << EmptyButton_C16, EmptyButton_C16, EmptyButton_C16 >>,
                    << EmptyButton_C16, EmptyButton_C16, EmptyButton_C16 >> >>,
     knobs |-> << [ccw |-> EmptyButton_C16, press |-> EmptyButton_C16,
                   cw |-> EmptyButton_C16] >>]

IsFactoryDefault_C16(m) ==
    /\ m.device.rows = 2 /\ m.device.cols = 3 /\ m.device.knobs = 1
    /\ m.device.layers = 3
    /\ m.layers = << DefaultLayer_C16, DefaultLayer_C16, DefaultLayer_C16 >>
    /\ m.led_settings = << [mode |-> 1, layer |-> 1, color |-> "Cyan"] >>

\* A read of a missing path whose write of the default succeeds returns the
\* factory default and leaves a readable file holding it.
ReadCreates_C16 ==
    (~file.present /\ last'.op = "read" /\ last'.res.msg # "Creating default config") =>
        /\ last'.res.ok
        /\ last'.value # None
        /\ IsFactoryDefault_C16(last'.value[1])
        /\ file'.present /\ file'.openable /\ file'.wellformed
        /\ IsFactoryDefault_C16(from_reader(file'.doc))

\* C16: read on a path where no file exists creates the file holding the
\* factory default (2x3 grid, 1 knob, device.layers 3, three layers of empty
\* Buttons with delay 0, LED mode 1, layer 1, cyan) and returns it;
\* afterwards the file exists.
Thm_C16 == [][ReadCreates_C16]_vars

\* A read has created the file and returned the factory default.
Wit_C16 ==
    /\ last.op = "read" /\ last.wrote /\ last.value # None
    /\ IsFactoryDefault_C16(last.value[1])
    /\ Readable /\ IsFactoryDefault_C16(Cfg)

Claim_C18 ==
    (Validated /\ IsFactoryDefault_C16(Cfg)) => last.res.ok

\* Macropad m has the geometry (R, C, K, L) in its device fields and in
\* every layer.
HasShape(m, R, C, K, L) ==
    /\ m.device.rows = R /\ m.device.cols = C
    /\ m.device.knobs = K /\ m.device.layers = L
    /\ Len(m.layers) = L
    /\ \A i \in 1..Len(m.layers) :
          /\ Len(m.layers[i].buttons) = R
          /\ \A row \in 1..Len(m.layers[i].buttons) : Len(m.layers[i].buttons[row]) = C
          /\ Len(m.layers[i].knobs) = K

\* The Macropad apply_layout would leave, from the editor as it stands.
Applied == apply_layout_data(app, data).macropad_data

\* C19: after apply_layout with the chosen rows R, cols C, knobs K and
\* layers L, whatever the configuration was before, device.rows = R,
\* device.cols = C, device.knobs = K, device.layers = L, there are L layers
\* and every layer has R rows of C Buttons and K knobs.
Thm_C19 ==
    /\ HasShape(Applied, app.ui_rows, app.ui_cols, app.ui_knobs, app.ui_layers)
    /\ data.status.msg = "Applied" =>
          /\ HasShape(data.macropad_data, data.macropad_data.device.rows,
                      data.macropad_data.device.cols, data.macropad_data.device.knobs,
                      data.macropad_data.device.layers)
          /\ data.status.args = << data.macropad_data.device.layers,
                                   data.macropad_data.device.rows,
                                   data.macropad_data.device.cols >>

\* A layout of three layers of one row of three Buttons has been applied,
\* which no configuration the editor starts from has.
Wit_C19 ==
    /\ data.status.msg = "Applied"
    /\ HasShape(data.macropad_data, 1, 3, 1, 3)

\* C20: apply_layout preserves overlapping cells and only those: in a layer
\* below both layer counts every Button at a (row, col) of both grids and
\* every knob of both keeps its delay and mapping; every other Button and
\* knob part of the new configuration has delay 0 and the empty mapping.
Thm_C20 ==
    LET old == data.macropad_data.layers
        new == Applied.layers
    IN  \A i \in 1..Len(new) :
          /\ \A row \in 1..Len(new[i].buttons) :
                \A col \in 1..Len(new[i].buttons[row]) :
                   new[i].buttons[row][col] =
                      IF /\ i <= Len(old)
                         /\ row <= Len(old[i].buttons)
                         /\ col <= Len(old[i].buttons[row])
                      THEN old[i].buttons[row][col]
                      ELSE [delay |-> 0, mapping |-> << >>]
          /\ \A k \in 1..Len(new[i].knobs) :
                IF i <= Len(old) /\ k <= Len(old[i].knobs)
                THEN new[i].knobs[k] = old[i].knobs[k]
                ELSE /\ new[i].knobs[k].ccw = [delay |-> 0, mapping |-> << >>]
                     /\ new[i].knobs[k].press = [delay |-> 0, mapping |-> << >>]
                     /\ new[i].knobs[k].cw = [delay |-> 0, mapping |-> << >>]

\* A layout has been applied that kept a Button and a knob of the old
\* configuration and added a row of empty Buttons below them.
Wit_C20 ==
    /\ data.status.msg = "Applied"
    /\ Len(data.macropad_data.layers) >= 1
    /\ Len(data.macropad_data.layers[1].buttons) = 2
    /\ Len(data.macropad_data.layers[1].buttons[1]) >= 1
    /\ data.macropad_data.layers[1].buttons[1][1] = SampleButton
    /\ data.macropad_data.layers[1].buttons[2][1] = [delay |-> 0, mapping |-> << >>]
    /\ Len(data.macropad_data.layers[1].knobs) = 1
    /\ data.macropad_data.layers[1].knobs[1].ccw = SampleButton

\* The Macropad's layers all match the device geometry and there are
\* device.layers of them.
WellFormedMacropad(m) ==
    HasShape(m, m.device.rows, m.device.cols, m.device.knobs, m.device.layers)

\* The current layer index refers to an existing layer, and the selection to
\* an existing Button or knob of it.
RefersToExisting(d) ==
    IF d.current_layer_idx >= Len(d.macropad_data.layers) THEN FALSE
    ELSE IndexOk(d.macropad_data.layers, d.current_layer_idx, d.selection)

\* No step of the editor has indexed out of range, and none would now.
NoIndexPanic ==
    /\ ~app.panicked
    /\ ~render_panics(data)
    /\ ~sync_temp_to_data_panics(app, data)
    /\ ~sync_data_to_temp_panics(data)

\* Editor steps keep a well-formed Macropad well-formed.
KeepsWellFormed ==
    WellFormedMacropad(data.macropad_data) => WellFormedMacropad(data'.macropad_data)

\* C21 as claimed: from a well-formed Macropad, the current layer index and
\* the selection always refer to an existing layer and an existing Button
\* or knob of it, and no editor step indexes out of range.
Claim_C21 ==
    WellFormedMacropad(data.macropad_data) =>
        RefersToExisting(data) /\ NoIndexPanic

\* C21, amended: from a well-formed Macropad no editor step indexes out of
\* range, and whenever the Macropad holds a layer the current layer index
\* and the selection refer to an existing layer and an existing Button or
\* knob of it.
IndexSafe_C21 ==
    WellFormedMacropad(data.macropad_data) =>
        /\ NoIndexPanic
        /\ Len(data.macropad_data.layers) > 0 => RefersToExisting(data)

Thm_C21 == [][KeepsWellFormed]_vars /\ []IndexSafe_C21

\* A knob part is selected in the third layer of a well-formed Macropad
\* and text has been typed into it.
Wit_C21 ==
    /\ WellFormedMacropad(data.macropad_data)
    /\ data.current_layer_idx = 2
    /\ data.selection.kind = "Knob"
    /\ ButtonAt(data.macropad_data.layers,
                SelectedPos(data.current_layer_idx, data.selection)).mapping = M_foobar

\* The editor with text typed into the edit fields.
Typed == { [app EXCEPT !.temp_editor_val = t] : t \in EditorMappings }
         \cup { [app EXCEPT !.temp_delay_val = t] : t \in EditorDelays }

\* Something is selected and the current layer exists.
HasTarget(d) ==
    d.selection.kind # "None" /\ d.current_layer_idx < Len(d.macropad_data.layers)

\* What sync_temp_to_data(a, d) may change, and what it may not.
EditFrame(a, d) ==
    LET e == sync_temp_to_data(a, d)
        old == d.macropad_data.layers
        new == e.macropad_data.layers
    IN  /\ e.macropad_data.device = d.macropad_data.device
        /\ Len(new) = Len(old)
        /\ ButtonPositions(new) = ButtonPositions(old)
        /\ e.macropad_data.led_settings =
              << [mode |-> a.led_mode, layer |-> a.led_layer, color |-> a.led_color] >>
        /\ e.current_layer_idx = d.current_layer_idx
        /\ e.selection = d.selection
        /\ e.connected_pid = d.connected_pid
        /\ e.status = d.status
        /\ IF HasTarget(d)
           THEN LET sel == SelectedPos(d.current_layer_idx, d.selection) IN
                /\ ButtonAt(new, sel).mapping = a.temp_editor_val
                /\ ButtonAt(new, sel).delay = unwrap_or(parse_u16(a.temp_delay_val), 0)
                /\ \A pos \in ButtonPositions(old) \ {sel} :
                      ButtonAt(new, pos) = ButtonAt(old, pos)
           ELSE new = old

\* C22: a per-Button edit (sync_temp_to_data) changes only the mapping and
\* delay of the selected Button or knob part in the current layer and sets
\* led_settings to the editor's LED mode, layer and color; the device
\* geometry, the number of layers and every other Button and knob part are
\* unchanged, and with no selection or an out-of-range current layer no
\* Button changes.
Thm_C22 ==
    \A a \in Typed :
        ~sync_temp_to_data_panics(a, data) => EditFrame(a, data)

\* Text typed into a Button selected in the second layer is in that Button,
\* the same Button of the first layer is as the file had it, and the LED
\* settings, absent in the file, are the editor's.
Wit_C22 ==
    /\ data.current_layer_idx = 1 /\ data.selection = Selection_Button(0, 0)
    /\ Len(data.macropad_data.layers) = 2
    /\ data.macropad_data.layers[2].buttons[1][1].mapping = M_foobar
    /\ data.macropad_data.layers[1].buttons[1][1] = SampleButton
    /\ data.macropad_data.led_settings =
          << [mode |-> app.led_mode, layer |-> app.led_layer, color |-> app.led_color] >>

\* A step that changes the selection or switches the layer and returns:
\* a click on a Button of the grid, a knob part or a layer tab.
SelectStep ==
    /\ events' = events + 1
    /\ ~app'.panicked
    /\ data'.status = data.status
    /\ \/ data'.selection # data.selection
       \/ data'.current_layer_idx # data.current_layer_idx

\* The edit buffer holds the mapping and the delay of Button b.
BufferHolds(a, b) ==
    a.temp_editor_val = b.mapping /\ a.temp_delay_val = to_string(b.delay)

\* After the step the buffer holds the newly selected Button.
LoadsNew_C23 ==
    HasTarget(data') =>
        BufferHolds(app', ButtonAt(data'.macropad_data.layers,
                                   SelectedPos(data'.current_layer_idx, data'.selection)))

\* After the step the Button selected before holds the mapping that was in
\* the buffer.
KeepsMapping_C23 ==
    HasTarget(data) =>
        ButtonAt(data'.macropad_data.layers,
                 SelectedPos(data.current_layer_idx, data.selection)).mapping
            = app.temp_editor_val

\* After the step the Button selected before holds the delay that was in
\* the buffer.
KeepsDelay_C23 ==
    HasTarget(data) =>
        to_string(ButtonAt(data'.macropad_data.layers,
                           SelectedPos(data.current_layer_idx, data.selection)).delay)
            = app.temp_delay_val

\* C23 as claimed: after every selection change or layer switch the edit
\* buffer holds the mapping and delay of the newly selected Button and the
\* Button selected before holds what the buffer contained, so that typed
\* text is never lost.
Claim_C23 ==
    [][SelectStep => LoadsNew_C23 /\ KeepsMapping_C23 /\ KeepsDelay_C23]_vars

\* The part of C23 that the editor keeps: the new Button is loaded and the
\* mapping typed stays in the Button it was typed for.
Kept_C23 == [][SelectStep => LoadsNew_C23 /\ KeepsMapping_C23]_vars

\* The status changes to 'Config saved': a click on Save Config.
ShowsSaved == data.status.msg # "Config saved" /\ data'.status.msg = "Config saved"

\* C25 as claimed: the editor shows 'Config saved' only when the save
\* succeeded, that is, when the file is what a successful write of the
\* editor's configuration leaves.
Claim_C25 ==
    [][ShowsSaved =>
          file' = Mapping_save(data'.macropad_data, file, "written").file]_vars

\* The part of C25 about Mapping::save itself: it returns Ok only when the
\* write was made.
SaveReports_C25 ==
    (last.op = "save" /\ last.res.ok) =>
        file = Mapping_save(last.arg[1], file, "written").file

\* A thread that waits for the Mutex does not hold it, and the holder is at
\* no lock(): every holder runs on to the end of its guard's scope.
NoReentry ==
    /\ UiAt("lock") => mutex.holder # "ui"
    /\ \A w \in WorkerSlots : workers[w].pc = "want" => mutex.holder # w
    /\ mutex.holder \in WorkerSlots => workers[mutex.holder].pc = "held"

\* The status of a programming thread is written after the 'Programming...'
\* status of the click that started it.
ReportsAfterClick ==
    \A j \in 1..Len(log) :
        log[j].by = "thread" =>
            \E i \in 1..(j - 1) : log[i] = [by |-> "ui", click |-> log[j].click]

\* Every thread that requests the Mutex obtains it (or, poisoned, the error).
ObtainsLock ==
    /\ UiAt("lock") ~> ~UiAt("lock")
    /\ \A w \in WorkerSlots : (workers[w].pc = "want") ~> (workers[w].pc # "want")

\* C24: the Mutex of DATA is never acquired by a thread that holds it and
\* every holder releases it without waiting for another thread; for every
\* interleaving of the UI thread with the connection, LED and programming
\* threads each thread that requests the lock eventually obtains it, and
\* the status of a programming thread is written after the 'Programming...'
\* status of its click.
Thm_C24 == [](NoReentry /\ ReportsAfterClick) /\ ObtainsLock

\* A programming thread waits for the Mutex while the UI thread, in the
\* handler that spawned it, still holds the guard.
Wit_C24 ==
    /\ mutex.holder = "ui" /\ UiAt("unlock") /\ UiIns.arg = "program_device"
    /\ \E w \in WorkerSlots :
          /\ workers[w].kind = "program" /\ workers[w].pc = "want"
          /\ workers[w].click = ui.clicks

====
